---- MODULE Spec2Model ----
(***************************************************************************)
(* A model of the Observatory service's job lifecycle engine:              *)
(*   - JobQueue        (app/core/queue.py)         Redis lists + payloads   *)
(*   - JobManager      (app/core/jobs.py)          asyncio tasks and a lock *)
(*   - RateLimiter, RateLimitMiddleware (app/middleware/ratelimit.py)       *)
(*   - WebhookNotifier (app/core/notifications.py)                          *)
(*   - BatchWorker     (app/core/worker.py)                                 *)
(*   - submit_batch_analysis (app/api/v1/batch.py)                          *)
(* Each component has its own specification (SpecQueue, SpecJobs, ...) over *)
(* its own variables; the variables of the other components stay at their   *)
(* initial values.                                                          *)
(***************************************************************************)
EXTENDS Integers, Sequences, FiniteSets, TLC

(***************************************************************************)
(* Bounds of the model.                                                     *)
(***************************************************************************)
\* number of job ids uuid4 hands out in one behaviour
MaxIds == 3
\* settings.max_queue_size (config.py 47: 10000), at model scale
max_queue_size == 2
\* number of jobs JobManager.create_job is called for in one behaviour
MaxJobs == 2
\* the clock of the rate limiter: how far time.time() moves between two calls
\* that are not made at the same instant, and when the behaviour stops (seconds)
TickSeconds == 30
MaxTime == 120
\* settings.rate_limit_public / rate_limit_api_key / rate_limit_partner
\* (config.py 31-33, read from the environment), at model scale
RateLimitPublic == 1
RateLimitApiKey == 2
RateLimitPartner == 3
\* requests_per_day of the three tiers (ratelimit.py 19, 24, 29: 500, 5000,
\* 50000), at model scale: each can be reached within MaxTime
PublicPerDay == 2
ApiKeyPerDay == 4
PartnerPerDay == 6
\* the largest max_retries _send_webhook is called with
MaxRetries == 2
\* the largest number of conversation_ids in a batch
MaxItems == 3
\* how many times the worker loop calls dequeue in one behaviour
MaxIterations == 3
\* how many times the cancel endpoint is called for the analysis
MaxCancels == 3
\* the largest batch whose items all succeed (the progress webhooks)
MaxTotal == 16

(***************************************************************************)
(* JobPriority (queue.py 14-19).                                            *)
(***************************************************************************)
LOW == 0
NORMAL == 1
HIGH == 2
JobPriority == {LOW, NORMAL, HIGH}

VARIABLES
    \* ---- JobQueue: the Redis store
    normalList,      \* list at queue_key ("observatory:job_queue")
    priorityList,    \* list at priority_queue_key
    store,           \* job_data_prefix + id -> <<>> (no key) or <<payload>>
    nextId,          \* how many ids uuid4 has generated
    \* ---- JobQueue: the callers
    qpc,             \* position of each caller inside enqueue/dequeue/cancel
    qloc,            \* the call's arguments and locals
    \* ---- JobQueue: history
    lastRet,         \* what the most recent call to return returned
    delivered,       \* id -> number of dequeue calls that returned its payload
    cancelledTrue,   \* ids for which cancel returned True
    missed,          \* ids a dequeue popped and found without a payload
    fifoRun,         \* TRUE while the run is: enqueues, then sequential non-blocking dequeues
    enqLog,          \* while fifoRun: <<id, priority>> in the order of the rpush
    deqLog,          \* while fifoRun: ids in the order dequeue returned their payload
    \* ---- JobManager
    jstatus,         \* jobs[id].status ("absent": id not in self.jobs)
    jresult,         \* jobs[id].result: <<>> (None) or <<r>>
    jerror,          \* jobs[id].error: <<>> (None) or <<message>>
    jtasks,          \* the ids in self.tasks
    jlock,           \* self._lock: "free", or "shutdown" while shutdown awaits gather
    cpc,             \* create_job's position, per job
    tpc,             \* the position of the job's task (_run_job)
    tcancel,         \* task.cancel() was called and not yet delivered
    ttimeout,        \* the job's timeout: "off", "armed", or "elapsed"
    \* ---- JobManager: history
    cancelOk,        \* ids for which cancel_job returned True
    tcancelReq,      \* ids whose task cancel_job or shutdown has cancelled
    jcompleted,      \* id -> how many times completed_at was written
    jcret,           \* <<id, value>> returned by cancel_job in the latest step
    \* ---- RateLimiter
    rnow,            \* time.time(), in seconds
    rminute,         \* identifier -> _memory_store[identifier]["minute"]
    rday,            \* identifier -> _memory_store[identifier]["day"]
    rres,            \* the dictionary the most recent check_rate_limit returned
    \* ---- RateLimiter: history
    rtier,           \* identifier -> the tier its requests carry ("none": no request yet)
    rfirst,          \* identifier -> time of its first call (-1: no call yet)
    rnth,            \* identifier -> calls made less than 60 s after the first one
    rgranted,        \* identifier -> calls allowed at the present clock reading
    rallowed,        \* identifier -> the times of its allowed calls, in order
    \* ---- WebhookNotifier._send_webhook
    wpc,             \* "idle", "sending" (inside the for loop), "returned"
    wmax,            \* the argument max_retries
    wattempt,        \* the loop variable attempt
    woutcomes,       \* history: how each attempt made so far ended, in order
    wret,            \* <<>> while running, <<TRUE>> or <<FALSE>>: the value returned
    \* ---- BatchWorker.process_job
    bpc,             \* "idle", "items" (inside the for loop), "done"
    btotal,          \* total_conversations = len(job.conversation_ids)
    bcallback,       \* job.options has a callback_url
    bidx,            \* how many items the for loop has taken
    bcompleted,      \* completed_count
    bfailed,         \* failed_count
    boutcomes,       \* history: <<position in conversation_ids, outcome>> per item taken
    bsent,           \* history: the webhooks handed to the notifier, in order
    \* ---- RateLimitMiddleware.dispatch
    mpc,             \* "idle", "downstream" (awaiting call_next), "responded", "raised"
    mresult,         \* the local variable result (<<>> before the check)
    mresponse,       \* the response dispatch returned (<<>>: none)
    mcalls,          \* how often dispatch has invoked call_next for this request
    \* ---- BatchWorker.start / stop
    lpc,             \* start(): "idle" (not called), "dequeue", "process", "sleep",
                     \* "returned", "cancelled" (left with a CancelledError)
    lrunning,        \* self.running
    lcurrent,        \* self.current_job is not None
    \* ---- BatchWorker.start / stop: history
    liter,           \* how each iteration of the loop ended, in order
    lstopAt,         \* where start() was when stop() was called ("none": not called)
    lcancelAt,       \* where start() was when its task was cancelled ("none")
    \* ---- the analysis endpoints (api/v1/analyze.py)
    arow,            \* the status column of the analysis record ("none": no record)
    arun,            \* run_analysis: "none" (no task), "start", "analyze", "done"
    aopen,           \* the database session of the create request is open
    acpc,            \* cancel_analysis: "idle", "selected", "responded"
    acread,          \* the status cancel_analysis has read ("none" before)
    acresp,          \* the status code of the last cancel response (0: none)
    accalls          \* how many times cancel_analysis was called

qvars == <<normalList, priorityList, store, nextId, qpc, qloc,
           lastRet, delivered, cancelledTrue, missed, fifoRun, enqLog, deqLog>>

jvars == <<jstatus, jresult, jerror, jtasks, jlock, cpc, tpc, tcancel, ttimeout,
          cancelOk, tcancelReq, jcompleted, jcret>>

rvars == <<rnow, rminute, rday, rres, rtier, rfirst, rnth, rgranted, rallowed>>

wvars == <<wpc, wmax, wattempt, woutcomes, wret>>

bvars == <<bpc, btotal, bcallback, bidx, bcompleted, bfailed, boutcomes, bsent>>

mvars == <<mpc, mresult, mresponse, mcalls>>

lvars == <<lpc, lrunning, lcurrent, liter, lstopAt, lcancelAt>>

avars == <<arow, arun, aopen, acpc, acread, acresp, accalls>>

\* what the steps of one component leave alone: the other components
\* (the middleware calls the limiter: the limiter's steps name mvars themselves)
qOthers == <<jvars, rvars, wvars, bvars, mvars, lvars, avars>>
jOthers == <<qvars, rvars, wvars, bvars, mvars, lvars, avars>>
rOthers == <<qvars, jvars, wvars, bvars, lvars, avars>>
wOthers == <<qvars, jvars, rvars, bvars, mvars, lvars, avars>>
bOthers == <<qvars, jvars, rvars, wvars, mvars, lvars, avars>>
lOthers == <<qvars, jvars, rvars, wvars, bvars, mvars, avars>>
aOthers == <<qvars, jvars, rvars, wvars, bvars, mvars, lvars>>

vars == <<normalList, priorityList, store, nextId, qpc, qloc,
          lastRet, delivered, cancelledTrue, missed, fifoRun, enqLog, deqLog,
          jstatus, jresult, jerror, jtasks, jlock, cpc, tpc, tcancel, ttimeout,
          cancelOk, tcancelReq, jcompleted, jcret,
          rnow, rminute, rday, rres, rtier, rfirst, rnth, rgranted, rallowed,
          wpc, wmax, wattempt, woutcomes, wret,
          bpc, btotal, bcallback, bidx, bcompleted, bfailed, boutcomes, bsent,
          mpc, mresult, mresponse, mcalls,
          lpc, lrunning, lcurrent, liter, lstopAt, lcancelAt,
          arow, arun, aopen, acpc, acread, acresp, accalls>>

\* the concurrent callers of the queue (API handlers, workers)
Procs == {"c1", "c2"}
Ids == 1..MaxIds

(***************************************************************************)
(* Redis list commands, as redis-py returns them with decode_responses.     *)
(* An absent value (nil / None) is the empty sequence.                      *)
(***************************************************************************)
RPush(list, v) == Append(list, v)

\* LPOP: <<head>> or <<>> for an empty list
LPopValue(list) == IF list = <<>> THEN <<>> ELSE <<Head(list)>>
LPopRest(list) == IF list = <<>> THEN <<>> ELSE Tail(list)

RECURSIVE LRemOne(_, _)
\* LREM key 1 v: the list without the first occurrence of v
LRemOne(list, v) ==
    IF list = <<>> THEN <<>>
    ELSE IF Head(list) = v THEN Tail(list)
    ELSE <<Head(list)>> \o LRemOne(Tail(list), v)

InList(list, v) == \E i \in 1..Len(list) : list[i] = v

\* what LREM key 1 v returns: the number of elements removed
LRemCount(list, v) == IF InList(list, v) THEN 1 ELSE 0

\* dequeue's timeout argument, in tenths of a second: 0, 0.5 s and 5 s
Timeouts == {0, 5, 50}
\* int(timeout), the whole seconds handed to BLPOP (0 blocks for ever)
IntTimeout(t) == t \div 10

(***************************************************************************)
(* BatchJob (queue.py 22-36) and its JSON form.  A Python value of an       *)
(* options dict is a tagged tuple: <<"str", s>>, <<"int", digits>>,         *)
(* <<"float", digits>>, <<"bool", b>>, <<"none">>, <<"list", items>>,       *)
(* <<"tuple", items>>, <<"dict", pairs>> with pairs a sequence of           *)
(* <<key, value>>.  A JSON value is <<"string", s>>, <<"integer", digits>>, *)
(* <<"fraction", digits>>, <<"literal", "true"/"false">>, <<"null">>,       *)
(* <<"array", items>> or <<"object", pairs>>.                               *)
(***************************************************************************)
\* the floats JSON has no number for
NonFinite == {"inf", "-inf", "nan"}

\* how model_dump_json writes a value of a field typed Any: a tuple is
\* written as an array, a float that is not finite as null
RECURSIVE to_json(_)
to_json(v) ==
    CASE v[1] = "str" -> <<"string", v[2]>>
      [] v[1] = "int" -> <<"integer", v[2]>>
      [] v[1] = "float" -> IF v[2] \in NonFinite THEN <<"null">> ELSE <<"fraction", v[2]>>
      [] v[1] = "bool" -> <<"literal", v[2]>>
      [] v[1] = "none" -> <<"null">>
      [] v[1] \in {"list", "tuple"} ->
            <<"array", [i \in 1..Len(v[2]) |-> to_json(v[2][i])]>>
      [] v[1] = "dict" ->
            <<"object", [i \in 1..Len(v[2]) |-> <<v[2][i][1], to_json(v[2][i][2])>>]>>

\* how model_validate_json reads a JSON value into a field typed Any
RECURSIVE from_json(_)
from_json(j) ==
    CASE j[1] = "string" -> <<"str", j[2]>>
      [] j[1] = "integer" -> <<"int", j[2]>>
      [] j[1] = "fraction" -> <<"float", j[2]>>
      [] j[1] = "literal" -> <<"bool", j[2]>>
      [] j[1] = "null" -> <<"none">>
      [] j[1] = "array" ->
            <<"list", [i \in 1..Len(j[2]) |-> from_json(j[2][i])]>>
      [] j[1] = "object" ->
            <<"dict", [i \in 1..Len(j[2]) |-> <<j[2][i][1], from_json(j[2][i][2])>>]>>

\* job.model_dump_json(): priority is written as its integer value
\* (use_enum_values), created_at as an ISO string
model_dump_json(job) ==
    [batch_id |-> <<"string", job.batch_id>>,
     conversation_ids |->
         <<"array", [i \in 1..Len(job.conversation_ids) |->
                        <<"string", job.conversation_ids[i]>>]>>,
     options |-> to_json(<<"dict", job.options>>),
     priority |-> <<"integer", job.priority>>,
     created_at |-> <<"isoformat", job.created_at>>]

\* BatchJob.model_validate_json(job_json)
model_validate_json(job_json) ==
    [batch_id |-> job_json.batch_id[2],
     conversation_ids |->
         [i \in 1..Len(job_json.conversation_ids[2]) |->
             job_json.conversation_ids[2][i][2]],
     options |-> from_json(job_json.options)[2],
     priority |-> CHOOSE pr \in JobPriority : pr = job_json.priority[2],
     created_at |-> job_json.created_at[2]]

\* the options the callers send: none; a callback URL with JSON-native
\* settings; and a dict holding a tuple and a float beyond the double range
\* (json.loads reads the number 1e999 of a request body as inf)
SampleOptions ==
    << <<>>,
       << <<"callback_url", <<"str", "https://example.org/hook">>>>,
          <<"pattern_types", <<"list", << <<"str", "dialectic">> >> >> >>,
          <<"threshold", <<"float", "0.5">>>>,
          <<"max_depth", <<"int", "3">>>>,
          <<"verbose", <<"bool", "true">>>>,
          <<"extra", <<"dict", << <<"note", <<"none">>>> >> >> >> >>,
       << <<"window", <<"tuple", << <<"int", "1">>, <<"int", "2">> >> >> >>,
          <<"limit", <<"float", "inf">>>> >> >>

\* the conversation ids of the batches
SampleConversations ==
    << << "conv-1" >>, << "conv-1", "conv-2", "" >>, << "conv-3", "conv-3" >> >>

\* the BatchJob handed to the call of enqueue that generates `id`: the
\* samples in turn, with the priority the caller chose
SampleJob(id, priority) ==
    LET k == ((id - 1) % Len(SampleOptions)) + 1
    IN  [batch_id |-> IF k = 1 THEN "batch-1-0" ELSE IF k = 2 THEN "batch-3-1"
                                                 ELSE "batch-2-2",
         conversation_ids |-> SampleConversations[k],
         options |-> SampleOptions[k],
         priority |-> priority,
         created_at |-> id]

Idle == [op |-> "idle"]

QInit ==
    /\ normalList = <<>>
    /\ priorityList = <<>>
    /\ store = [i \in Ids |-> <<>>]
    /\ nextId = 0
    /\ qpc = [p \in Procs |-> "idle"]
    /\ qloc = [p \in Procs |-> Idle]
    /\ lastRet = Idle
    /\ delivered = [i \in Ids |-> 0]
    /\ cancelledTrue = {}
    /\ missed = {}
    /\ fifoRun = TRUE
    /\ enqLog = <<>>
    /\ deqLog = <<>>

(***************************************************************************)
(* JobManager (jobs.py).  Every "async with self._lock" block is one step;  *)
(* acquiring the lock is an await, so the steps of create_job, of the       *)
(* job's task, of cancel_job and of shutdown interleave.  Only shutdown     *)
(* keeps the lock over an await (gather).                                   *)
(***************************************************************************)
Jobs == 1..MaxJobs

PENDING == "pending"
RUNNING == "running"
COMPLETED == "completed"
FAILED == "failed"
CANCELLED == "cancelled"
JobStatus == {PENDING, RUNNING, COMPLETED, FAILED, CANCELLED}
Terminal == {COMPLETED, FAILED, CANCELLED}

JInit ==
    /\ jstatus = [j \in Jobs |-> "absent"]
    /\ jresult = [j \in Jobs |-> <<>>]
    /\ jerror = [j \in Jobs |-> <<>>]
    /\ jtasks = {}
    /\ jlock = "free"
    /\ cpc = [j \in Jobs |-> "idle"]
    /\ tpc = [j \in Jobs |-> "none"]
    /\ tcancel = [j \in Jobs |-> FALSE]
    /\ ttimeout = [j \in Jobs |-> "off"]
    /\ cancelOk = {}
    /\ tcancelReq = {}
    /\ jcompleted = [j \in Jobs |-> 0]
    /\ jcret = <<>>

(***************************************************************************)
(* RateLimiter (ratelimit.py 43-125) and TierLimits (ratelimit.py 14-40).   *)
(***************************************************************************)
\* the identifiers requests arrive with (an IP address, an API key)
Identifiers == {"x", "y"}
Tiers == {"public", "api_key", "partner"}

\* TierLimits.PUBLIC / API_KEY / PARTNER
PUBLIC == [requests_per_minute |-> RateLimitPublic, requests_per_day |-> PublicPerDay]
API_KEY == [requests_per_minute |-> RateLimitApiKey, requests_per_day |-> ApiKeyPerDay]
PARTNER == [requests_per_minute |-> RateLimitPartner, requests_per_day |-> PartnerPerDay]

\* TierLimits.get_limits
get_limits(tier) ==
    IF tier = "partner" THEN PARTNER
    ELSE IF tier = "api_key" THEN API_KEY
    ELSE PUBLIC

\* the mutant of KeepRecent: an entry exactly one window old is kept
KeepRecentInclusive(entries, now, window) ==
    SelectSeq(entries, LAMBDA e : now - e[1] <= window)
\* [(ts, count) for ts, count in entries if now - ts < window]
KeepRecent(entries, now, window) ==
    SelectSeq(entries, LAMBDA e : now - e[1] < window)

\* sum(count for ts, count in entries)
RECURSIVE SumCounts(_)
SumCounts(entries) ==
    IF entries = <<>> THEN 0 ELSE entries[1][2] + SumCounts(Tail(entries))

\* the mutant of StoreKey: one window for all identifiers
SharedKey(identifier) == "x"
\* the key of self._memory_store an identifier's windows are kept under
\* (ratelimit.py 68, 100, 116)
StoreKey(identifier) == identifier

\* the mutant of RecordHit: the update of the window is lost
RecordNothing(entries, now) == entries
\* .append((now, 1)) (ratelimit.py 116-117)
RecordHit(entries, now) == Append(entries, <<now, 1>>)

\* a variant of OverLimit that denies one request early
OverLimitEarly(minute_requests, minute_limit) == minute_requests + 1 >= minute_limit

\* the mutant of OverLimit: the comparison off by one
OverLimitOffByOne(minute_requests, minute_limit) == minute_requests > minute_limit

\* the test of the minute limit (ratelimit.py 106)
OverLimit(minute_requests, minute_limit) == minute_requests >= minute_limit

\* RateLimiter.__init__: the store is an empty defaultdict
RInit ==
    /\ rnow = 0
    /\ rminute = [i \in Identifiers |-> <<>>]
    /\ rday = [i \in Identifiers |-> <<>>]
    /\ rres = [op |-> "idle"]
    /\ rtier = [i \in Identifiers |-> "none"]
    /\ rfirst = [i \in Identifiers |-> -1]
    /\ rnth = [i \in Identifiers |-> 0]
    /\ rgranted = [i \in Identifiers |-> 0]
    /\ rallowed = [i \in Identifiers |-> <<>>]

(***************************************************************************)
(* WebhookNotifier._send_webhook (notifications.py 245-304).                *)
(***************************************************************************)
\* the status codes an endpoint answers with
StatusCodes == {199, 200, 299, 300, 404, 499, 500, 503}
\* what self.client.post raises: httpx.TimeoutException, another
\* httpx.RequestError (connection errors), or any other Exception
PostExceptions == {"TimeoutException", "RequestError", "Exception"}

\* the mutant of AttemptRange: range(max_retries)
AttemptRangeNoInitial(max_retries) == 0..(max_retries - 1)
\* range(max_retries + 1) (notifications.py 268)
AttemptRange(max_retries) == 0..max_retries

\* the mutant of IsSuccess: only 200 counts as delivered
OnlyOk(status_code) == status_code = 200
\* response.status_code >= 200 and response.status_code < 300
IsSuccess(status_code) == status_code >= 200 /\ status_code < 300
\* the mutant of NoRetryStatus: only 4xx ends the delivery
OnlyClientError(status_code) == status_code >= 400 /\ status_code < 500
\* response.status_code < 500 (notifications.py 291)
NoRetryStatus(status_code) == status_code < 500

\* no notifier call is under way
WInit ==
    /\ wpc = "idle"
    /\ wmax = 0
    /\ wattempt = 0
    /\ woutcomes = <<>>
    /\ wret = <<>>

(***************************************************************************)
(* BatchWorker.process_job (worker.py 74-156) and the payloads of           *)
(* WebhookNotifier (notifications.py 129-192).                              *)
(***************************************************************************)
\* round(num / den * 100, 2), in hundredths of a percent.  Python computes
\* it in floats; for den up to 31 the float result is the exact rounding.
RoundPercent(num, den) == (20000 * num + den) \div (2 * den)

(***************************************************************************)
(* Python floats (binary64), as far as worker.py 116-117 needs them: a      *)
(* positive float is [m, exp] with the 53-bit mantissa m kept as four       *)
(* limbs <<top, l2, l3, l4>> of base 2^13 (top in 2^13 .. 2^14 - 1) and     *)
(* the value mantissa * 2^(exp - 52).  Division and multiplication round    *)
(* to nearest, ties to even; % is exact.                                    *)
(***************************************************************************)
Limb == 2^13
\* fixed-point numbers are counted in units of 2^-(52 + UnitBits)
UnitBits == 4
One == Limb * 2^UnitBits

\* the least s with k * 2^s >= t
RECURSIVE Shift(_, _)
Shift(k, t) == IF k >= t THEN 0 ELSE 1 + Shift(2 * k, t)

\* the mantissa plus one unit in the last place
Increment(m) ==
    LET l4 == m[4] + 1
        l3 == m[3] + l4 \div Limb
        l2 == m[2] + l3 \div Limb
        top == m[1] + l2 \div Limb
    IN  IF top = 2 * Limb
        THEN [m |-> <<Limb, 0, 0, 0>>, up |-> 1]
        ELSE [m |-> <<top, l2 % Limb, l3 % Limb, l4 % Limb>>, up |-> 0]

\* guard is the first bit cut off, sticky says whether a later one is set
RoundToNearestEven(m, guard, sticky, exp) ==
    IF guard = 1 /\ (sticky \/ m[4] % 2 = 1)
    THEN [m |-> Increment(m).m, exp |-> exp + Increment(m).up]
    ELSE [m |-> m, exp |-> exp]

\* the float k / t for integers 0 < k <= t
FloatDiv(k, t) ==
    LET s == Shift(k, t)
        r0 == k * 2^s - t
        r1 == (r0 * Limb) % t
        r2 == (r1 * Limb) % t
        r3 == (r2 * Limb) % t
        r4 == (r3 * Limb) % t
    IN  RoundToNearestEven(<<Limb + (r0 * Limb) \div t, (r1 * Limb) \div t,
                             (r2 * Limb) \div t, (r3 * Limb) \div t>>,
                           (2 * r4) \div t, (2 * r4) % t # 0, -s)

\* the float x * c for a float x and an integer 0 < c < 2^13
FloatMul(x, c) ==
    LET v4 == x.m[4] * c
        v3 == x.m[3] * c + v4 \div Limb
        v2 == x.m[2] * c + v3 \div Limb
        v1 == x.m[1] * c + v2 \div Limb
        d == Shift(2 * Limb, v1 + 1)
        D == 2^d
        up == Limb \div D
    IN  IF d = 0 THEN [m |-> <<v1, v2 % Limb, v3 % Limb, v4 % Limb>>, exp |-> x.exp]
        ELSE RoundToNearestEven(
                 <<v1 \div D,
                   (v2 % Limb) \div D + (v1 % D) * up,
                   (v3 % Limb) \div D + (v2 % D) * up,
                   (v4 % Limb) \div D + (v3 % D) * up>>,
                 (v4 \div (D \div 2)) % 2, v4 % (D \div 2) # 0, x.exp + d)

\* a float with -UnitBits <= exp as a fixed-point number: four limbs, the
\* first unbounded, counting units of 2^-(52 + UnitBits)
Scaled(x) ==
    LET f == 2^(x.exp + UnitBits)
        w4 == x.m[4] * f
        w3 == x.m[3] * f + w4 \div Limb
        w2 == x.m[2] * f + w3 \div Limb
        w1 == x.m[1] * f + w2 \div Limb
    IN  <<w1, w2 % Limb, w3 % Limb, w4 % Limb>>

\* a % m for a fixed-point number a and an integer m: the integer part is
\* reduced, the fraction stays
FloatMod(a, m) == <<((a[1] \div One) % m) * One + (a[1] % One), a[2], a[3], a[4]>>

\* a < b for fixed-point numbers
FloatLess(a, b) ==
    \E i \in 1..4 : a[i] < b[i] /\ \A h \in 1..(i - 1) : a[h] = b[h]

\* progress % 10 < (1 / total_conversations * 100), with
\* progress = done / total_conversations * 100 (worker.py 116-117), as
\* Python evaluates it in floats
DecileTest(done, total_conversations) ==
    FloatLess(FloatMod(Scaled(FloatMul(FloatDiv(done, total_conversations), 100)), 10),
              Scaled(FloatMul(FloatDiv(1, total_conversations), 100)))

\* build_batch_progress_payload
build_batch_progress_payload(total_conversations, completed_count, failed_count) ==
    [event |-> "batch.progress",
     total_conversations |-> total_conversations,
     completed_count |-> completed_count,
     failed_count |-> failed_count,
     pending_count |-> total_conversations - completed_count - failed_count,
     progress_percent |->
         RoundPercent(completed_count + failed_count, total_conversations)]

\* build_batch_complete_payload
build_batch_complete_payload(total_conversations, completed_count, failed_count) ==
    [event |-> "batch.complete",
     total_conversations |-> total_conversations,
     completed_count |-> completed_count,
     failed_count |-> failed_count,
     success_rate |-> IF total_conversations > 0
                      THEN RoundPercent(completed_count, total_conversations)
                      ELSE 0]

\* the worker is between two jobs
BInit ==
    /\ bpc = "idle"
    /\ btotal = 0
    /\ bcallback = FALSE
    /\ bidx = 0
    /\ bcompleted = 0
    /\ bfailed = 0
    /\ boutcomes = <<>>
    /\ bsent = <<>>

MInit ==
    /\ mpc = "idle"
    /\ mresult = <<>>
    /\ mresponse = <<>>
    /\ mcalls = 0

\* BatchWorker.__init__ (worker.py 43-44)
LInit ==
    /\ lpc = "idle"
    /\ lrunning = FALSE
    /\ lcurrent = FALSE
    /\ liter = <<>>
    /\ lstopAt = "none"
    /\ lcancelAt = "none"

\* no analysis was submitted
AInit ==
    /\ arow = "none"
    /\ arun = "none"
    /\ aopen = FALSE
    /\ acpc = "idle"
    /\ acread = "none"
    /\ acresp = 0
    /\ accalls = 0

Init == QInit /\ JInit /\ RInit /\ WInit /\ BInit /\ MInit /\ LInit /\ AInit

OthersIdle(p) == \A q \in Procs \ {p} : qpc[q] = "idle"
DequeueSeen == lastRet.op = "dequeue" \/ \E q \in Procs : qloc[q].op = "dequeue"

\* qloc after caller p's step to `loc`: a cancel in flight in another caller
\* has now been interleaved with
Stepped(p, loc) ==
    [q \in Procs |->
        IF q = p THEN loc
        ELSE IF qloc[q].op = "cancel" THEN [qloc[q] EXCEPT !.undisturbed = FALSE]
        ELSE qloc[q]]

\* the history of the FIFO scenario is kept while the run is one
FifoHistory(stillFifo, enq, deq) ==
    /\ fifoRun' = stillFifo
    /\ enqLog' = IF stillFifo THEN enq ELSE <<>>
    /\ deqLog' = IF stillFifo THEN deq ELSE <<>>

(***************************************************************************)
(* enqueue (queue.py 65-89)                                                 *)
(***************************************************************************)
\* lines 77-81: a fresh id, SET job_data_prefix+id to the job's JSON; the
\* caller is at `from` and goes on at `to`
EnqueueSetAt(p, from, to) ==
    /\ UNCHANGED qOthers
    /\ qpc[p] = from
    /\ nextId < MaxIds
    /\ \E pr \in JobPriority :
         /\ nextId' = nextId + 1
         /\ store' = [store EXCEPT ![nextId + 1] =
                          <<model_dump_json(SampleJob(nextId + 1, pr))>>]
         /\ qloc' = Stepped(p, [op |-> "enqueue", id |-> nextId + 1, priority |-> pr])
    /\ qpc' = [qpc EXCEPT ![p] = to]
    /\ FifoHistory(fifoRun /\ ~DequeueSeen, enqLog, deqLog)
    /\ UNCHANGED <<normalList, priorityList, lastRet, delivered, cancelledTrue, missed>>

\* enqueue called on its own
EnqueueSet(p) == EnqueueSetAt(p, "idle", "enq_push")

\* enqueue as it would be with the priority test left out: one list for all
EnqueuePushOneList(p) ==
    /\ UNCHANGED qOthers
    /\ qpc[p] = "enq_push"
    /\ normalList' = RPush(normalList, qloc[p].id)
    /\ UNCHANGED priorityList
    /\ FifoHistory(fifoRun, Append(enqLog, <<qloc[p].id, qloc[p].priority>>), deqLog)
    /\ lastRet' = [op |-> "enqueue"]
    /\ qpc' = [qpc EXCEPT ![p] = "idle"]
    /\ qloc' = Stepped(p, Idle)
    /\ UNCHANGED <<store, nextId, delivered, cancelledTrue, missed>>

\* lines 84-89: RPUSH the id to the list its priority selects, return the id;
\* the caller is at `from` and goes on at `to` with the locals `loc`
EnqueuePushAt(p, from, to, loc) ==
    /\ UNCHANGED qOthers
    /\ qpc[p] = from
    /\ IF qloc[p].priority = HIGH
       THEN /\ priorityList' = RPush(priorityList, qloc[p].id)
            /\ UNCHANGED normalList
       ELSE /\ normalList' = RPush(normalList, qloc[p].id)
            /\ UNCHANGED priorityList
    /\ FifoHistory(fifoRun, Append(enqLog, <<qloc[p].id, qloc[p].priority>>), deqLog)
    /\ lastRet' = [op |-> "enqueue"]
    /\ qpc' = [qpc EXCEPT ![p] = to]
    /\ qloc' = Stepped(p, loc)
    /\ UNCHANGED <<store, nextId, delivered, cancelledTrue, missed>>

\* enqueue called on its own
EnqueuePush(p) == EnqueuePushAt(p, "enq_push", "idle", Idle)

(***************************************************************************)
(* dequeue (queue.py 91-127)                                                *)
(***************************************************************************)
\* lines 115 and 122: return None
DequeueReturnNone(p) ==
    /\ lastRet' = [op |-> "dequeue", job |-> <<>>]
    /\ qpc' = [qpc EXCEPT ![p] = "idle"]
    /\ qloc' = Stepped(p, Idle)

\* dequeue as it would be reading the head (LINDEX 0) without removing it
DequeuePeekPriority(p) ==
    /\ UNCHANGED qOthers
    /\ qpc[p] = "idle"
    /\ \E t \in Timeouts :
         /\ qloc' = Stepped(p, IF priorityList = <<>>
                                THEN [op |-> "dequeue", timeout |-> t]
                                ELSE [op |-> "dequeue", job_id |-> LPopValue(priorityList),
                                      high_present |-> FALSE])
         /\ FifoHistory(fifoRun /\ t = 0 /\ OthersIdle(p), enqLog, deqLog)
    /\ qpc' = [qpc EXCEPT ![p] = IF priorityList = <<>> THEN "deq_normal" ELSE "deq_get"]
    /\ UNCHANGED <<priorityList, normalList, store, nextId, lastRet, delivered, cancelledTrue, missed>>

\* line 104: LPOP the priority list
DequeuePopPriority(p) ==
    /\ UNCHANGED qOthers
    /\ qpc[p] = "idle"
    /\ \E t \in Timeouts :
         /\ qloc' = Stepped(p, IF priorityList = <<>>
                                THEN [op |-> "dequeue", timeout |-> t]
                                ELSE [op |-> "dequeue", job_id |-> LPopValue(priorityList),
                                      high_present |-> FALSE])
         /\ FifoHistory(fifoRun /\ t = 0 /\ OthersIdle(p), enqLog, deqLog)
    /\ priorityList' = LPopRest(priorityList)
    /\ qpc' = [qpc EXCEPT ![p] = IF priorityList = <<>> THEN "deq_normal" ELSE "deq_get"]
    /\ UNCHANGED <<normalList, store, nextId, lastRet, delivered, cancelledTrue, missed>>

\* lines 107-112, list not empty: BLPOP (timeout > 0) or LPOP hands out the
\* head; high_present notes whether the priority list held a job just then
DequeuePopNormal(p) ==
    /\ UNCHANGED qOthers
    /\ qpc[p] = "deq_normal"
    /\ normalList # <<>>
    /\ qloc' = Stepped(p, [op |-> "dequeue", job_id |-> LPopValue(normalList),
                            high_present |-> priorityList # <<>>])
    /\ normalList' = LPopRest(normalList)
    /\ qpc' = [qpc EXCEPT ![p] = "deq_get"]
    /\ UNCHANGED <<priorityList, store, nextId, lastRet, delivered, cancelledTrue, missed,
                   fifoRun, enqLog, deqLog>>

\* dequeue as it would be with a BLPOP that is never timed out: an empty list
\* ends the call only when LPOP was used (timeout 0)
DequeueEmptyNoTimeout(p) ==
    /\ UNCHANGED qOthers
    /\ qpc[p] = "deq_normal"
    /\ normalList = <<>>
    /\ qloc[p].timeout = 0
    /\ DequeueReturnNone(p)
    /\ UNCHANGED <<normalList, priorityList, store, nextId, delivered, cancelledTrue, missed,
                   fifoRun, enqLog, deqLog>>

\* lines 107-115, list empty: LPOP answers nil at once; BLPOP answers nil
\* when int(timeout) seconds have passed, and never when int(timeout) = 0
DequeueEmpty(p) ==
    /\ UNCHANGED qOthers
    /\ qpc[p] = "deq_normal"
    /\ normalList = <<>>
    /\ qloc[p].timeout > 0 => IntTimeout(qloc[p].timeout) > 0
    /\ DequeueReturnNone(p)
    /\ UNCHANGED <<normalList, priorityList, store, nextId, delivered, cancelledTrue, missed,
                   fifoRun, enqLog, deqLog>>

\* a variant of DequeueGet: an id without a payload goes back to its list
DequeueGetPutsBack(p) ==
    /\ UNCHANGED qOthers
    /\ qpc[p] = "deq_get"
    /\ LET job_json == store[qloc[p].job_id[1]] IN
         IF job_json = <<>>
         THEN /\ DequeueReturnNone(p)
              /\ missed' = missed \cup {qloc[p].job_id[1]}
              /\ normalList' = <<qloc[p].job_id[1]>> \o normalList
         ELSE /\ qloc' = Stepped(p, [op |-> "dequeue", job_id |-> qloc[p].job_id,
                                     high_present |-> qloc[p].high_present,
                                     job_json |-> job_json])
              /\ qpc' = [qpc EXCEPT ![p] = "deq_del"]
              /\ UNCHANGED <<lastRet, missed, normalList>>
    /\ UNCHANGED <<priorityList, store, nextId, delivered, cancelledTrue,
                   fifoRun, enqLog, deqLog>>

\* lines 118-122: GET the payload; a missing payload ends the call with None
DequeueGet(p) ==
    /\ UNCHANGED qOthers
    /\ qpc[p] = "deq_get"
    /\ LET job_json == store[qloc[p].job_id[1]] IN
         IF job_json = <<>>
         THEN /\ DequeueReturnNone(p)
              /\ missed' = missed \cup {qloc[p].job_id[1]}
         ELSE /\ qloc' = Stepped(p, [op |-> "dequeue", job_id |-> qloc[p].job_id,
                                     high_present |-> qloc[p].high_present,
                                     job_json |-> job_json])
              /\ qpc' = [qpc EXCEPT ![p] = "deq_del"]
              /\ UNCHANGED <<lastRet, missed>>
    /\ UNCHANGED <<normalList, priorityList, store, nextId, delivered, cancelledTrue,
                   fifoRun, enqLog, deqLog>>

\* dequeue as it would be without the DEL of line 125: the payload stays
DequeueReturnsWithoutDelete(p) ==
    /\ UNCHANGED qOthers
    /\ qpc[p] = "deq_del"
    /\ LET id == qloc[p].job_id[1] IN
         /\ delivered' = [delivered EXCEPT ![id] = @ + 1]
         /\ FifoHistory(fifoRun, enqLog, Append(deqLog, id))
         /\ lastRet' = [op |-> "dequeue", job |-> <<id>>,
                         batch |-> model_validate_json(qloc[p].job_json[1])]
    /\ qpc' = [qpc EXCEPT ![p] = "idle"]
    /\ qloc' = Stepped(p, Idle)
    /\ UNCHANGED <<normalList, priorityList, store, nextId, cancelledTrue, missed>>

\* lines 125-127: DEL the payload key, return the job parsed from the JSON
DequeueDelete(p) ==
    /\ UNCHANGED qOthers
    /\ qpc[p] = "deq_del"
    /\ LET id == qloc[p].job_id[1] IN
         /\ store' = [store EXCEPT ![id] = <<>>]
         /\ delivered' = [delivered EXCEPT ![id] = @ + 1]
         /\ FifoHistory(fifoRun, enqLog, Append(deqLog, id))
         /\ lastRet' = [op |-> "dequeue", job |-> <<id>>,
                         batch |-> model_validate_json(qloc[p].job_json[1])]
    /\ qpc' = [qpc EXCEPT ![p] = "idle"]
    /\ qloc' = Stepped(p, Idle)
    /\ UNCHANGED <<normalList, priorityList, nextId, cancelledTrue, missed>>

(***************************************************************************)
(* cancel (queue.py 129-151)                                                *)
(***************************************************************************)
\* line 142: LREM the id from the normal list
CancelLremNormal(p) ==
    /\ UNCHANGED qOthers
    /\ qpc[p] = "idle"
    /\ \E id \in Ids :
         /\ qloc' = Stepped(p, [op |-> "cancel", id |-> id,
                        removed_normal |-> LRemCount(normalList, id),
                        inListAtCall |-> (InList(normalList, id) \/ InList(priorityList, id)),
                        changed |-> (LRemOne(normalList, id) # normalList),
                        undisturbed |-> TRUE])
         /\ normalList' = LRemOne(normalList, id)
    /\ qpc' = [qpc EXCEPT ![p] = "can_prio"]
    /\ FifoHistory(FALSE, enqLog, deqLog)
    /\ UNCHANGED <<priorityList, store, nextId, lastRet, delivered, cancelledTrue, missed>>

CancelReturn(p, val, changed) ==
    /\ lastRet' = [op |-> "cancel", val |-> val, id |-> qloc[p].id,
                   inListAtCall |-> qloc[p].inListAtCall,
                   changed |-> changed,
                   undisturbed |-> qloc[p].undisturbed]
    /\ qpc' = [qpc EXCEPT ![p] = "idle"]
    /\ qloc' = Stepped(p, Idle)

\* cancel as it would be deciding on removed_priority alone
CancelLremPriorityOnly(p) ==
    /\ UNCHANGED qOthers
    /\ qpc[p] = "can_prio"
    /\ LET id == qloc[p].id
           removed_priority == LRemCount(priorityList, id)
           changed == qloc[p].changed \/ LRemOne(priorityList, id) # priorityList
       IN /\ priorityList' = LRemOne(priorityList, id)
          /\ IF removed_priority # 0
             THEN /\ qloc' = Stepped(p, [qloc[p] EXCEPT !.changed = changed])
                  /\ qpc' = [qpc EXCEPT ![p] = "can_del"]
                  /\ UNCHANGED lastRet
             ELSE CancelReturn(p, FALSE, changed)
    /\ UNCHANGED <<normalList, store, nextId, delivered, cancelledTrue, missed,
                   fifoRun, enqLog, deqLog>>

\* a variant of CancelLremPriority: the payload is deleted whatever was removed
CancelLremPriorityThenDelete(p) ==
    /\ UNCHANGED qOthers
    /\ qpc[p] = "can_prio"
    /\ LET id == qloc[p].id
           changed == qloc[p].changed \/ LRemOne(priorityList, id) # priorityList
       IN /\ priorityList' = LRemOne(priorityList, id)
          /\ qloc' = Stepped(p, [qloc[p] EXCEPT !.changed = changed])
          /\ qpc' = [qpc EXCEPT ![p] = "can_del"]
          /\ UNCHANGED lastRet
    /\ UNCHANGED <<normalList, store, nextId, delivered, cancelledTrue, missed,
                   fifoRun, enqLog, deqLog>>

\* lines 143-145 and 151: LREM the id from the priority list; nothing removed: False
CancelLremPriority(p) ==
    /\ UNCHANGED qOthers
    /\ qpc[p] = "can_prio"
    /\ LET id == qloc[p].id
           removed_priority == LRemCount(priorityList, id)
           changed == qloc[p].changed \/ LRemOne(priorityList, id) # priorityList
       IN /\ priorityList' = LRemOne(priorityList, id)
          /\ IF qloc[p].removed_normal # 0 \/ removed_priority # 0
             THEN /\ qloc' = Stepped(p, [qloc[p] EXCEPT !.changed = changed])
                  /\ qpc' = [qpc EXCEPT ![p] = "can_del"]
                  /\ UNCHANGED lastRet
             ELSE CancelReturn(p, FALSE, changed)
    /\ UNCHANGED <<normalList, store, nextId, delivered, cancelledTrue, missed,
                   fifoRun, enqLog, deqLog>>

\* lines 146-149: DEL the payload key, return True
CancelDelete(p) ==
    /\ UNCHANGED qOthers
    /\ qpc[p] = "can_del"
    /\ store' = [store EXCEPT ![qloc[p].id] = <<>>]
    /\ cancelledTrue' = cancelledTrue \cup {qloc[p].id}
    /\ CancelReturn(p, TRUE, TRUE)
    /\ UNCHANGED <<normalList, priorityList, nextId, delivered, missed, fifoRun, enqLog,
                   deqLog>>

QNext ==
    \E p \in Procs :
        \/ EnqueueSet(p)
        \/ EnqueuePush(p)
        \/ DequeuePopPriority(p)
        \/ DequeuePopNormal(p)
        \/ DequeueEmpty(p)
        \/ DequeueGet(p)
        \/ DequeueDelete(p)
        \/ CancelLremNormal(p)
        \/ CancelLremPriority(p)
        \/ CancelDelete(p)

SpecQueue == Init /\ [][QNext]_vars

(***************************************************************************)
(* The queue with a storage that answers: every command of a dequeue in     *)
(* flight is answered, a BLPOP with a timeout of n > 0 seconds at the       *)
(* latest when the n seconds are over.  When callers call is not forced.    *)
(***************************************************************************)
SpecQueueFair ==
    /\ Init /\ [][QNext]_vars
    /\ \A p \in Procs :
        /\ WF_vars(DequeuePopNormal(p))
        /\ WF_vars(DequeueEmpty(p))
        /\ WF_vars(DequeueGet(p))
        /\ WF_vars(DequeueDelete(p))

\* C34: on a queue that is empty and stays empty, a dequeue called with a
\* timeout > 0, a fraction of a second included, eventually returns None,
\* and so does a dequeue called with timeout 0.
C34_EmptyDequeueReturns ==
    ([](nextId = 0)) =>
        \A p \in Procs :
            (qpc[p] = "deq_normal") ~>
                (qpc[p] = "idle" /\ lastRet = [op |-> "dequeue", job |-> <<>>])

(***************************************************************************)
(* A producer and the batch worker: one caller enqueues, the worker calls   *)
(* dequeue(timeout=5) again and again (worker.py 51-59); no cancel, no      *)
(* clear.                                                                   *)
(***************************************************************************)
Producer == "c1"
Worker == "c2"
\* worker.py 54: dequeue(timeout=5), in tenths of a second
WorkerTimeout == 50

\* worker.py 54 with queue.py 103-107: the worker calls dequeue(timeout=5),
\* which LPOPs the priority list
WorkerDequeue ==
    /\ UNCHANGED qOthers
    /\ qpc[Worker] = "idle"
    /\ qloc' = Stepped(Worker, IF priorityList = <<>>
                                THEN [op |-> "dequeue", timeout |-> WorkerTimeout]
                                ELSE [op |-> "dequeue", job_id |-> LPopValue(priorityList),
                                      high_present |-> FALSE])
    /\ FifoHistory(FALSE, enqLog, deqLog)
    /\ priorityList' = LPopRest(priorityList)
    /\ qpc' = [qpc EXCEPT ![Worker] = IF priorityList = <<>> THEN "deq_normal" ELSE "deq_get"]
    /\ UNCHANGED <<normalList, store, nextId, lastRet, delivered, cancelledTrue, missed>>

DNext ==
    \/ EnqueueSet(Producer)
    \/ EnqueuePush(Producer)
    \/ WorkerDequeue
    \/ DequeuePopNormal(Worker)
    \/ DequeueEmpty(Worker)
    \/ DequeueGet(Worker)
    \/ DequeueDelete(Worker)

\* the worker's loop calls dequeue again after every return, and every
\* storage command of a dequeue is answered (BLPOP at the latest when its
\* timeout is over)
SpecDrain ==
    /\ Init /\ [][DNext]_vars
    /\ WF_vars(WorkerDequeue)
    /\ WF_vars(DequeuePopNormal(Worker))
    /\ WF_vars(DequeueEmpty(Worker))
    /\ WF_vars(DequeueGet(Worker))
    /\ WF_vars(DequeueDelete(Worker))

(***************************************************************************)
(* submit_batch_analysis (api/v1/batch.py 75-130) on the queue: size() is    *)
(* two LLEN commands (queue.py 153-165), each an await, and the enqueue     *)
(* follows the capacity test as further commands.  The requests are valid   *)
(* (at most 1000 conversations) and the storage answers every command.      *)
(***************************************************************************)
\* queue.py 162: normal_size = await llen(queue_key), of the size() at line 97
SubmitLlenNormal(p) ==
    /\ UNCHANGED qOthers
    /\ qpc[p] = "idle"
    /\ nextId < MaxIds
    /\ qpc' = [qpc EXCEPT ![p] = "sub_llen"]
    /\ qloc' = Stepped(p, [op |-> "submit",
                           at_call |-> Len(normalList) + Len(priorityList),
                           normal_size |-> Len(normalList)])
    /\ FifoHistory(FALSE, enqLog, deqLog)
    /\ UNCHANGED <<normalList, priorityList, store, nextId, lastRet, delivered,
                   cancelledTrue, missed>>

\* batch.py 98: queue_size >= settings.max_queue_size
QueueFull(queue_size) == queue_size >= max_queue_size

\* queue.py 163-164: priority_size = await llen(priority_queue_key) and the
\* sum; batch.py 98-102: the capacity test, 503 when the queue is full
SubmitLlenPriority(p) ==
    /\ UNCHANGED qOthers
    /\ qpc[p] = "sub_llen"
    /\ LET queue_size == qloc[p].normal_size + Len(priorityList)
       IN  IF QueueFull(queue_size)
           THEN /\ qpc' = [qpc EXCEPT ![p] = "idle"]
                /\ qloc' = Stepped(p, Idle)
                /\ lastRet' = [op |-> "submit", status_code |-> 503,
                               at_call |-> qloc[p].at_call]
           ELSE /\ qpc' = [qpc EXCEPT ![p] = "sub_enqueue"]
                /\ qloc' = Stepped(p, [qloc[p] EXCEPT !.normal_size = queue_size])
                /\ UNCHANGED lastRet
    /\ FifoHistory(FALSE, enqLog, deqLog)
    /\ UNCHANGED <<normalList, priorityList, store, nextId, delivered, cancelledTrue, missed>>

\* batch.py 115: job_id = await job_queue.enqueue(batch_job), the SET
SubmitEnqueueSet(p) == EnqueueSetAt(p, "sub_enqueue", "sub_push")

\* ... and the RPUSH
SubmitEnqueuePush(p) ==
    EnqueuePushAt(p, "sub_push", "sub_pos", [op |-> "submit_pos", id |-> qloc[p].id])

\* queue.py 81 raises (the SET was not done): enqueue raises out of line 115,
\* the handler of batch.py 127-132 answers 500; the uuid4 was drawn
SubmitSetFails(p) ==
    /\ UNCHANGED qOthers
    /\ qpc[p] = "sub_enqueue"
    /\ nextId < MaxIds
    /\ nextId' = nextId + 1
    /\ lastRet' = [op |-> "submit", status_code |-> 500, id |-> nextId + 1]
    /\ qpc' = [qpc EXCEPT ![p] = "idle"]
    /\ qloc' = Stepped(p, Idle)
    /\ UNCHANGED <<normalList, priorityList, store, delivered, cancelledTrue, missed,
                   fifoRun, enqLog, deqLog>>

\* a variant of SubmitPushFails: the failure is swallowed and 202 answered
SubmitPushFailsSilently(p) ==
    /\ UNCHANGED qOthers
    /\ qpc[p] = "sub_push"
    /\ lastRet' = [op |-> "submit", status_code |-> 202, id |-> qloc[p].id,
                   queue_position |-> Len(normalList) + Len(priorityList)]
    /\ qpc' = [qpc EXCEPT ![p] = "idle"]
    /\ qloc' = Stepped(p, Idle)
    /\ UNCHANGED <<normalList, priorityList, store, nextId, delivered, cancelledTrue,
                   missed, fifoRun, enqLog, deqLog>>

\* queue.py 85 or 87 raises (the RPUSH was not done): enqueue raises, 500 is
\* answered; the payload set at line 81 stays
SubmitPushFails(p) ==
    /\ UNCHANGED qOthers
    /\ qpc[p] = "sub_push"
    /\ lastRet' = [op |-> "submit", status_code |-> 500, id |-> qloc[p].id]
    /\ qpc' = [qpc EXCEPT ![p] = "idle"]
    /\ qloc' = Stepped(p, Idle)
    /\ UNCHANGED <<normalList, priorityList, store, nextId, delivered, cancelledTrue,
                   missed, fifoRun, enqLog, deqLog>>

\* batch.py 116: queue_position = await job_queue.size(), the first LLEN
SubmitPositionNormal(p) ==
    /\ UNCHANGED qOthers
    /\ qpc[p] = "sub_pos"
    /\ qpc' = [qpc EXCEPT ![p] = "sub_pos2"]
    /\ qloc' = Stepped(p, [op |-> "submit_pos", id |-> qloc[p].id,
                           normal_size |-> Len(normalList)])
    /\ UNCHANGED <<normalList, priorityList, store, nextId, lastRet, delivered,
                   cancelledTrue, missed, fifoRun, enqLog, deqLog>>

\* the second LLEN, and the 202 response (batch.py 120-125)
SubmitAccepted(p) ==
    /\ UNCHANGED qOthers
    /\ qpc[p] = "sub_pos2"
    /\ qpc' = [qpc EXCEPT ![p] = "idle"]
    /\ qloc' = Stepped(p, Idle)
    /\ lastRet' = [op |-> "submit", status_code |-> 202, id |-> qloc[p].id,
                   queue_position |-> qloc[p].normal_size + Len(priorityList)]
    /\ UNCHANGED <<normalList, priorityList, store, nextId, delivered,
                   cancelledTrue, missed, fifoRun, enqLog, deqLog>>

SNext ==
    \E p \in Procs :
        \/ SubmitLlenNormal(p)
        \/ SubmitLlenPriority(p)
        \/ SubmitEnqueueSet(p)
        \/ SubmitEnqueuePush(p)
        \/ SubmitSetFails(p)
        \/ SubmitPushFails(p)
        \/ SubmitPositionNormal(p)
        \/ SubmitAccepted(p)

SpecSubmit == Init /\ [][SNext]_vars

\* C28: across the interleavings of concurrent batch submissions the number
\* of jobs in the queue never exceeds max_queue_size, and a submission made
\* while the queue holds max_queue_size jobs or more is answered 503 and
\* enqueues nothing.
C28_QueueBounded ==
    /\ [](Len(normalList) + Len(priorityList) <= max_queue_size)
    /\ [][\A p \in Procs :
            (qpc[p] = "sub_llen" /\ qloc[p].at_call >= max_queue_size
                /\ qpc'[p] # "sub_llen") =>
                /\ qpc'[p] = "idle"
                /\ lastRet' = [op |-> "submit", status_code |-> 503,
                               at_call |-> qloc[p].at_call]
                /\ normalList' = normalList /\ priorityList' = priorityList]_vars

\* C33: when a storage write of enqueue fails, enqueue raises and hands no
\* job id to its caller, the job is in neither list, and
\* submit_batch_analysis answers with an error status; a batch reported as
\* queued (202) is in a list.
C33_FailedWriteIsError ==
    /\ [][\A p \in Procs :
            (qpc[p] \in {"sub_enqueue", "sub_push"} /\ qpc'[p] = "idle") =>
                /\ lastRet'.op = "submit"
                /\ lastRet'.status_code = 500
                /\ DOMAIN lastRet' = {"op", "status_code", "id"}
                /\ normalList' = normalList /\ priorityList' = priorityList
                /\ ~InList(normalList', lastRet'.id)
                /\ ~InList(priorityList', lastRet'.id)]_vars
    /\ []((lastRet.op = "submit" /\ lastRet.status_code = 500) =>
             (~InList(normalList, lastRet.id) /\ ~InList(priorityList, lastRet.id)))
    /\ []((lastRet.op = "submit" /\ lastRet.status_code = 202) =>
             (InList(normalList, lastRet.id) \/ InList(priorityList, lastRet.id)))

\* the SET of a submission was done and its RPUSH failed: 500, the job in
\* neither list, while an earlier submission is queued
C33_Witness ==
    /\ lastRet.op = "submit" /\ lastRet.status_code = 500
    /\ lastRet.id = 2
    /\ store[2] # <<>>
    /\ ~InList(normalList, 2) /\ ~InList(priorityList, 2)
    /\ InList(normalList, 1) \/ InList(priorityList, 1)
    /\ \A p \in Procs : qpc[p] = "idle"

(***************************************************************************)
(* clear (queue.py 185-200), next to enqueue and dequeue: DEL of the two    *)
(* lists, then SCAN pages of the payload keys, each followed by a DEL of    *)
(* the keys of the page.  SCAN returns every key that is there from the     *)
(* first page to the last at least once; which page a key comes in, and     *)
(* whether a key set meanwhile is seen, is open.                            *)
(***************************************************************************)
\* the ids whose payload key exists
PayloadKeys == {i \in Ids : store[i] # <<>>}

\* line 189: DEL queue_key
ClearDeleteNormal(p) ==
    /\ UNCHANGED qOthers
    /\ qpc[p] = "idle"
    /\ normalList' = <<>>
    /\ qpc' = [qpc EXCEPT ![p] = "clr_prio"]
    /\ qloc' = Stepped(p, [op |-> "clear"])
    /\ FifoHistory(FALSE, enqLog, deqLog)
    /\ UNCHANGED <<priorityList, store, nextId, lastRet, delivered, cancelledTrue, missed>>

\* line 190: DEL priority_queue_key; the scan starts (cursor = 0)
ClearDeletePriority(p) ==
    /\ UNCHANGED qOthers
    /\ qpc[p] = "clr_prio"
    /\ priorityList' = <<>>
    /\ qpc' = [qpc EXCEPT ![p] = "clr_scan"]
    /\ qloc' = Stepped(p, [op |-> "clear", at_start |-> PayloadKeys])
    /\ UNCHANGED <<normalList, store, nextId, lastRet, delivered, cancelledTrue, missed,
                   fifoRun, enqLog, deqLog>>

\* lines 195-198: a page with a cursor other than 0, and the DEL of its keys
ClearScanPage(p) ==
    /\ UNCHANGED qOthers
    /\ qpc[p] = "clr_scan"
    /\ \E keys \in SUBSET PayloadKeys :
         /\ keys # {}
         /\ store' = [i \in Ids |-> IF i \in keys THEN <<>> ELSE store[i]]
    /\ qloc' = Stepped(p, qloc[p])
    /\ UNCHANGED <<normalList, priorityList, nextId, lastRet, delivered, cancelledTrue,
                   missed, qpc, fifoRun, enqLog, deqLog>>

\* lines 195-200: the last page (cursor = 0), the DEL of its keys, and the end
ClearScanLast(p) ==
    /\ UNCHANGED qOthers
    /\ qpc[p] = "clr_scan"
    /\ \E keys \in SUBSET PayloadKeys :
         /\ (qloc[p].at_start \cap PayloadKeys) \subseteq keys
         /\ store' = [i \in Ids |-> IF i \in keys THEN <<>> ELSE store[i]]
    /\ lastRet' = [op |-> "clear"]
    /\ qpc' = [qpc EXCEPT ![p] = "idle"]
    /\ qloc' = Stepped(p, Idle)
    /\ UNCHANGED <<normalList, priorityList, nextId, delivered, cancelledTrue, missed,
                   fifoRun, enqLog, deqLog>>

CNext ==
    \E p \in Procs :
        \/ EnqueueSet(p)
        \/ EnqueuePush(p)
        \/ DequeuePopPriority(p)
        \/ DequeuePopNormal(p)
        \/ DequeueEmpty(p)
        \/ DequeueGet(p)
        \/ DequeueDelete(p)
        \/ ClearDeleteNormal(p)
        \/ ClearDeletePriority(p)
        \/ ClearScanPage(p)
        \/ ClearScanLast(p)

SpecClear == Init /\ [][CNext]_vars

\* C32: a dequeue that has popped an id whose payload is missing returns
\* None (it does not raise), and the id is consumed: it is put back into
\* neither list and no later dequeue returns it.
C32_MissingPayload ==
    /\ [][\A p \in Procs :
            (qpc[p] = "deq_get" /\ qpc'[p] # "deq_get"
                /\ store[qloc[p].job_id[1]] = <<>>) =>
                /\ qpc'[p] = "idle"
                /\ lastRet' = [op |-> "dequeue", job |-> <<>>]
                /\ normalList' = normalList /\ priorityList' = priorityList
                /\ qloc[p].job_id[1] \in missed']_vars
    /\ [](\A id \in missed :
            /\ ~InList(normalList, id) /\ ~InList(priorityList, id)
            /\ delivered[id] = 0
            /\ \A q \in Procs :
                 (qloc[q].op = "dequeue" /\ "job_id" \in DOMAIN qloc[q]) =>
                     qloc[q].job_id # <<id>>)

\* a job was popped, clear() deleted its payload, the dequeue returned None,
\* and the dequeue after it found the lists empty
C32_Witness ==
    /\ missed = {1}
    /\ \A p \in Procs : qpc[p] = "idle"
    /\ lastRet = [op |-> "dequeue", job |-> <<>>]
    /\ store[1] = <<>>
    /\ nextId = 2
    /\ delivered[2] = 1

(***************************************************************************)
(* JobQueue: the claims                                                     *)
(***************************************************************************)
HighsOf(log) == SelectSeq(log, LAMBDA e : e[2] = HIGH)
OthersOf(log) == SelectSeq(log, LAMBDA e : e[2] # HIGH)
\* the ids of the enqueued jobs: the High ones in enqueue order, then the rest
ExpectedOrder(log) ==
    LET o == HighsOf(log) \o OthersOf(log) IN [i \in 1..Len(o) |-> o[i][1]]

\* C1: after a run of completed enqueues, sequential non-blocking dequeues
\* return the jobs in this order: every High job in enqueue order, then the
\* Normal and Low jobs together in enqueue order; None comes back only once
\* every job has been returned.
C1_PriorityThenFifo ==
    fifoRun =>
        /\ Len(deqLog) <= Len(enqLog)
        /\ deqLog = SubSeq(ExpectedOrder(enqLog), 1, Len(deqLog))
        /\ (lastRet.op = "dequeue" /\ lastRet.job = <<>>) => Len(deqLog) = Len(enqLog)

\* a Low job, then a High job, then a Normal job were enqueued and all three
\* came back
C1_Witness ==
    /\ fifoRun
    /\ enqLog = << <<1, LOW>>, <<2, HIGH>>, <<3, NORMAL>> >>
    /\ deqLog = <<2, 1, 3>>

\* C2: whatever the interleaving of the callers' storage operations, no
\* job's payload is returned by more than one dequeue call.
C2_AtMostOnce == \A id \in Ids : delivered[id] <= 1

\* two consumers hold a popped id each at the same time, after a delivery
C2_Witness ==
    /\ \A p \in Procs : qpc[p] = "deq_del"
    /\ \E id \in Ids : delivered[id] = 1

\* C10: a cancel no other caller interleaved with returns True exactly when
\* the id was in one of the two lists when it was called, and a False cancel
\* changed nothing; once cancel has returned True for an id, the id is in
\* neither list, its payload key is gone and no dequeue returns it; an id
\* that was delivered, cancelled or never enqueued is in neither list (so
\* cancelling it returns False).
C10_Cancel ==
    /\ (lastRet.op = "cancel" /\ lastRet.undisturbed) =>
            /\ lastRet.val <=> lastRet.inListAtCall
            /\ ~lastRet.val => ~lastRet.changed
    /\ \A id \in cancelledTrue :
            /\ ~InList(normalList, id) /\ ~InList(priorityList, id)
            /\ store[id] = <<>>
            /\ delivered[id] = 0
    /\ \A id \in Ids :
            (delivered[id] > 0 \/ id \in cancelledTrue \/ id > nextId) =>
                ~InList(normalList, id) /\ ~InList(priorityList, id)

\* one job was cancelled, one was delivered, and the last cancel returned False
C10_Witness ==
    /\ cancelledTrue # {}
    /\ \E id \in Ids : delivered[id] = 1
    /\ lastRet.op = "cancel" /\ lastRet.undisturbed /\ ~lastRet.val

\* where a job id is: being enqueued, in a list, with a dequeue (popped or
\* returned), or with a cancel (removed or reported cancelled)
BeingEnqueued(id) ==
    \E q \in Procs : qloc[q].op = "enqueue" /\ qloc[q].id = id
Queued(id) == InList(normalList, id) \/ InList(priorityList, id)
HeldByDequeue(id) ==
    \E q \in Procs : /\ qloc[q].op = "dequeue"
                     /\ "job_id" \in DOMAIN qloc[q]
                     /\ qloc[q].job_id = <<id>>
TakenByCancel(id) ==
    \E q \in Procs : /\ qloc[q].op = "cancel" /\ qloc[q].id = id
                     /\ qloc[q].removed_normal # 0 \/ qpc[q] = "can_del"
Places(id) ==
    (IF BeingEnqueued(id) THEN 1 ELSE 0) + (IF Queued(id) THEN 1 ELSE 0)
    + (IF HeldByDequeue(id) THEN 1 ELSE 0) + (IF delivered[id] > 0 THEN 1 ELSE 0)
    + (IF TakenByCancel(id) THEN 1 ELSE 0) + (IF id \in cancelledTrue THEN 1 ELSE 0)

\* C35: under every interleaving of the storage commands of a cancel with
\* those of concurrent dequeues, a queued job goes to exactly one of them:
\* either cancel returns True and no dequeue returns the job, or cancel
\* returns False and one dequeue returns the job, read from its payload; it
\* is never both cancelled and delivered, and never lost to both.
C35_CancelXorDeliver ==
    /\ \A id \in 1..nextId :
          /\ Places(id) = 1
          /\ delivered[id] <= 1
          /\ HeldByDequeue(id) => store[id] # <<>>
    /\ missed = {}
    /\ (lastRet.op = "cancel" /\ lastRet.inListAtCall) =>
          IF lastRet.val
          THEN lastRet.id \in cancelledTrue /\ delivered[lastRet.id] = 0
          ELSE \/ HeldByDequeue(lastRet.id) \/ delivered[lastRet.id] = 1
               \* (or another cancel of the same id has taken it)
               \/ TakenByCancel(lastRet.id) \/ lastRet.id \in cancelledTrue

\* cancel was called for a queued job, a dequeue popped the job between
\* cancel's commands, cancel returned False and the dequeue returned the job
C35_Witness ==
    /\ lastRet.op = "cancel" /\ lastRet.inListAtCall /\ ~lastRet.val
    /\ ~lastRet.undisturbed
    /\ delivered[lastRet.id] = 1
    /\ lastRet.id \notin cancelledTrue

\* C36: in every reachable state, operations in flight included, every id in
\* the normal or the priority list has a stored payload; and whenever no
\* operation is in flight, the ids with a stored payload are exactly the ids
\* in the two lists.
C36_ListsAndPayloads ==
    /\ \A id \in Ids : Queued(id) => store[id] # <<>>
    /\ (\A p \in Procs : qpc[p] = "idle") =>
          {id \in Ids : store[id] # <<>>} = {id \in Ids : Queued(id)}

\* three jobs were enqueued, one was returned by a dequeue, one was cancelled
\* and one is still queued with its payload; nothing is in flight
C36_Witness ==
    /\ \A p \in Procs : qpc[p] = "idle"
    /\ nextId = 3
    /\ \E a, b, c \in Ids :
          /\ delivered[a] = 1 /\ store[a] = <<>>
          /\ b \in cancelledTrue /\ store[b] = <<>>
          /\ Queued(c) /\ store[c] # <<>>

\* C37: with finitely many enqueue calls, no cancel and no clear, and a worker
\* that keeps calling dequeue(timeout=5), every job in a list is eventually
\* returned by a dequeue call, once; so is a High job pushed while the
\* worker waits at the normal list.
C37_EveryJobDelivered ==
    \A id \in Ids :
        /\ Queued(id) ~> (delivered[id] = 1 /\ ~Queued(id))
        /\ (qpc[Worker] = "deq_normal" /\ InList(priorityList, id)) ~>
               (lastRet.op = "dequeue" /\ lastRet.job = <<id>>)

\* a High job was pushed while the worker waited at the empty normal list:
\* the worker's dequeue has returned None and the job is in the priority list
C37_Witness ==
    /\ nextId = 1 /\ priorityList = <<1>> /\ normalList = <<>>
    /\ qpc[Worker] = "idle" /\ qpc[Producer] = "idle"
    /\ lastRet = [op |-> "dequeue", job |-> <<>>]
    /\ delivered[1] = 0

\* the priority the job `id` was enqueued with, while the history is kept
EnqueuedPriority(id) ==
    enqLog[CHOOSE i \in 1..Len(enqLog) : enqLog[i][1] = id][2]

\* C11: the job a dequeue returns has the batch_id, the conversation_ids in
\* their order, the options and the priority of the job that was enqueued
\* under its id.
C11_RoundTrip ==
    (fifoRun /\ lastRet.op = "dequeue" /\ lastRet.job # <<>>) =>
        LET job == SampleJob(lastRet.job[1], EnqueuedPriority(lastRet.job[1]))
        IN  /\ lastRet.batch.batch_id = job.batch_id
            /\ lastRet.batch.conversation_ids = job.conversation_ids
            /\ lastRet.batch.options = job.options
            /\ lastRet.batch.priority = job.priority

\* C22: whatever the interleaving of enqueue and dequeue calls, a dequeue
\* never returns a job it popped from the normal list at a moment when the
\* priority list held a High job.
C22_HighDrainsFirst ==
    [][\A p \in Procs :
          (qpc[p] = "deq_del" /\ qpc'[p] = "idle") => ~qloc[p].high_present]_vars

(***************************************************************************)
(* create_job (jobs.py 52-84)                                               *)
(***************************************************************************)
\* lines 67-78: the record goes into self.jobs as Pending under the lock,
\* then create_task schedules _run_job; timeout is the truthiness of the
\* timeout argument (line 106)
CreateJobPending(j) ==
    /\ UNCHANGED jOthers
    /\ cpc[j] = "idle"
    /\ \A i \in Jobs : i < j => cpc[i] # "idle"
    /\ jlock = "free"
    /\ jstatus' = [jstatus EXCEPT ![j] = PENDING]
    /\ cpc' = [cpc EXCEPT ![j] = "created"]
    /\ \E timeout \in BOOLEAN :
         /\ tpc' = [tpc EXCEPT ![j] = IF timeout THEN "scheduled_timeout" ELSE "scheduled"]
         /\ ttimeout' = [ttimeout EXCEPT ![j] = IF timeout THEN "armed" ELSE "off"]
    /\ UNCHANGED <<jresult, jerror, jtasks, jlock, tcancel, cancelOk, tcancelReq, jcompleted>>
    /\ jcret' = <<>>

\* lines 80-84: under the lock again, the task goes into self.tasks and the
\* status is set to Running
CreateJobRunning(j) ==
    /\ UNCHANGED jOthers
    /\ cpc[j] = "created"
    /\ jlock = "free"
    /\ jtasks' = jtasks \cup {j}
    /\ jstatus' = [jstatus EXCEPT ![j] = RUNNING]
    /\ cpc' = [cpc EXCEPT ![j] = "returned"]
    /\ UNCHANGED <<jresult, jerror, jlock, tpc, tcancel, cancelOk, ttimeout, tcancelReq, jcompleted>>
    /\ jcret' = <<>>

(***************************************************************************)
(* the job's task: _run_job (jobs.py 86-136)                                *)
(***************************************************************************)
\* how _run_job ends: without a write ("done": cancelled before its first
\* step, or cancelled inside a handler), or after one of its five writes
\* what task_func returns: a value, or None (the empty sequence)
TaskResult(j) == IF j % 2 = 1 THEN <<j>> ELSE <<>>
\* str(e) of the exception task_func raises: a message, or the empty string
\* of an exception without arguments
ErrorText(j) == IF j % 2 = 1 THEN "error" ELSE ""

TaskEnds == {"done", "done_completed", "done_kept_cancelled", "done_cancelled",
             "done_timeout", "done_error"}
TaskDone(j) == tpc[j] = "none" \/ tpc[j] \in TaskEnds
\* asyncio.Lock serves its waiters in arrival order and create_job goes
\* from its first critical section to the acquire of the second without
\* awaiting anything else, so the task's own critical sections come after
\* create_job's second one; the id is generated inside create_job, so a
\* cancel_job(id) is issued, and queues, after it as well.
Registered(j) == cpc[j] = "returned"
Started(j) == tpc[j] \in {"running", "running_timeout"}

\* the task's first step: a task cancelled before it ever ran ends without
\* entering _run_job's try block; otherwise task_func is awaited (104-109)
TaskStart(j) ==
    /\ UNCHANGED jOthers
    /\ tpc[j] \in {"scheduled", "scheduled_timeout"}
    /\ IF tcancel[j]
       THEN tpc' = [tpc EXCEPT ![j] = "done"]
       ELSE tpc' = [tpc EXCEPT ![j] = IF tpc[j] = "scheduled" THEN "running"
                                      ELSE "running_timeout"]
    /\ tcancel' = [tcancel EXCEPT ![j] = FALSE]
    /\ UNCHANGED <<jstatus, jresult, jerror, jtasks, jlock, cpc, cancelOk, ttimeout, tcancelReq, jcompleted>>
    /\ jcret' = <<>>

\* lines 107-112: task_func returned; the task goes for the lock
TaskFuncReturns(j) ==
    /\ UNCHANGED jOthers
    /\ Started(j) /\ ~tcancel[j]
    /\ tpc' = [tpc EXCEPT ![j] = "wait_complete"]
    /\ UNCHANGED <<jstatus, jresult, jerror, jtasks, jlock, cpc, tcancel, cancelOk, ttimeout, tcancelReq, jcompleted>>
    /\ jcret' = <<>>

\* lines 131-133: task_func raised an Exception
TaskFuncRaises(j) ==
    /\ UNCHANGED jOthers
    /\ Started(j) /\ ~tcancel[j]
    /\ tpc' = [tpc EXCEPT ![j] = "wait_error"]
    /\ UNCHANGED <<jstatus, jresult, jerror, jtasks, jlock, cpc, tcancel, cancelOk, ttimeout, tcancelReq, jcompleted>>
    /\ jcret' = <<>>

\* lines 107 and 124-126: wait_for's timeout elapsed. wait_for cancels
\* task_func and waits for it to end: a task_func that lets the
\* CancelledError through makes wait_for raise TimeoutError; one that
\* catches it and returns makes wait_for return that value; one that
\* catches it and raises makes wait_for raise that exception
TimeoutOutcomes == {"wait_timeout", "wait_complete", "wait_error"}
TaskTimesOut(j) ==
    /\ UNCHANGED jOthers
    /\ tpc[j] = "running_timeout" /\ ~tcancel[j]
    /\ \E outcome \in TimeoutOutcomes : tpc' = [tpc EXCEPT ![j] = outcome]
    /\ ttimeout' = [ttimeout EXCEPT ![j] = "elapsed"]
    /\ UNCHANGED <<jstatus, jresult, jerror, jtasks, jlock, cpc, tcancel, cancelOk, tcancelReq, jcompleted>>
    /\ jcret' = <<>>

\* lines 118-120: CancelledError reaches task_func, which lets it through
TaskHonoursCancel(j) ==
    /\ UNCHANGED jOthers
    /\ Started(j) /\ tcancel[j]
    /\ tpc' = [tpc EXCEPT ![j] = "wait_cancel"]
    /\ tcancel' = [tcancel EXCEPT ![j] = FALSE]
    /\ UNCHANGED <<jstatus, jresult, jerror, jtasks, jlock, cpc, cancelOk, ttimeout, tcancelReq, jcompleted>>
    /\ jcret' = <<>>

\* the cancellation does not end task_func: task_func catches the
\* CancelledError and goes on, or wait_for finds that task_func has ended
\* in the meantime and hands over its outcome instead
TaskIgnoresCancel(j) ==
    /\ UNCHANGED jOthers
    /\ Started(j) /\ tcancel[j]
    /\ tcancel' = [tcancel EXCEPT ![j] = FALSE]
    /\ UNCHANGED <<jstatus, jresult, jerror, jtasks, jlock, cpc, tpc, cancelOk, ttimeout, tcancelReq, jcompleted>>
    /\ jcret' = <<>>

\* the task is cancelled while it waits for the lock: inside the try block
\* (line 112) the CancelledError handler takes over; inside a handler (lines
\* 120, 126, 133) the CancelledError leaves _run_job and the task ends
TaskCancelledAtLock(j) ==
    /\ UNCHANGED jOthers
    /\ tpc[j] \in {"wait_complete", "wait_cancel", "wait_timeout", "wait_error"}
    /\ tcancel[j]
    /\ tpc' = [tpc EXCEPT ![j] = IF tpc[j] = "wait_complete" THEN "wait_cancel" ELSE "done"]
    /\ tcancel' = [tcancel EXCEPT ![j] = FALSE]
    /\ UNCHANGED <<jstatus, jresult, jerror, jtasks, jlock, cpc, cancelOk, ttimeout, tcancelReq, jcompleted>>
    /\ jcret' = <<>>

\* the mutant of TaskMarksCompleted: the test of the status left out
TaskMarksCompletedUnguarded(j) ==
    /\ UNCHANGED jOthers
    /\ tpc[j] = "wait_complete" /\ ~tcancel[j]
    /\ jlock = "free" /\ Registered(j)
    /\ jstatus' = [jstatus EXCEPT ![j] = COMPLETED]
    /\ jresult' = [jresult EXCEPT ![j] = TaskResult(j)]
    /\ jcompleted' = [jcompleted EXCEPT ![j] = @ + 1]
    /\ tpc' = [tpc EXCEPT ![j] = "done_completed"]
    /\ UNCHANGED <<jerror, jtasks, jlock, cpc, tcancel, cancelOk, ttimeout, tcancelReq>>
    /\ jcret' = <<>>

\* lines 112-116: Completed and the result, unless the status is Cancelled
TaskMarksCompleted(j) ==
    /\ UNCHANGED jOthers
    /\ tpc[j] = "wait_complete" /\ ~tcancel[j]
    /\ jlock = "free" /\ Registered(j)
    /\ IF jstatus[j] # CANCELLED
       THEN /\ jstatus' = [jstatus EXCEPT ![j] = COMPLETED]
            /\ jresult' = [jresult EXCEPT ![j] = TaskResult(j)]
            /\ jcompleted' = [jcompleted EXCEPT ![j] = @ + 1]
            /\ tpc' = [tpc EXCEPT ![j] = "done_completed"]
       ELSE /\ UNCHANGED <<jstatus, jresult, jcompleted>>
            /\ tpc' = [tpc EXCEPT ![j] = "done_kept_cancelled"]
    /\ UNCHANGED <<jerror, jtasks, jlock, cpc, tcancel, cancelOk, ttimeout, tcancelReq>>
    /\ jcret' = <<>>

\* lines 118-122: the CancelledError handler
TaskMarksCancelled(j) ==
    /\ UNCHANGED jOthers
    /\ tpc[j] = "wait_cancel" /\ ~tcancel[j]
    /\ jlock = "free" /\ Registered(j)
    /\ jstatus' = [jstatus EXCEPT ![j] = CANCELLED]
    /\ jcompleted' = [jcompleted EXCEPT ![j] = @ + 1]
    /\ tpc' = [tpc EXCEPT ![j] = "done_cancelled"]
    /\ UNCHANGED <<jresult, jerror, jtasks, jlock, cpc, tcancel, cancelOk, ttimeout, tcancelReq>>
    /\ jcret' = <<>>

\* lines 124-129: the TimeoutError handler
TaskMarksTimedOut(j) ==
    /\ UNCHANGED jOthers
    /\ tpc[j] = "wait_timeout" /\ ~tcancel[j]
    /\ jlock = "free" /\ Registered(j)
    /\ jstatus' = [jstatus EXCEPT ![j] = FAILED]
    /\ jerror' = [jerror EXCEPT ![j] = <<"timed out">>]
    /\ jcompleted' = [jcompleted EXCEPT ![j] = @ + 1]
    /\ tpc' = [tpc EXCEPT ![j] = "done_timeout"]
    /\ UNCHANGED <<jresult, jtasks, jlock, cpc, tcancel, cancelOk, ttimeout, tcancelReq>>
    /\ jcret' = <<>>

\* the mutant of TaskMarksFailed: the error message is not stored
TaskMarksFailedNoError(j) ==
    /\ UNCHANGED jOthers
    /\ tpc[j] = "wait_error" /\ ~tcancel[j]
    /\ jlock = "free" /\ Registered(j)
    /\ jstatus' = [jstatus EXCEPT ![j] = FAILED]
    /\ jcompleted' = [jcompleted EXCEPT ![j] = @ + 1]
    /\ tpc' = [tpc EXCEPT ![j] = "done_error"]
    /\ UNCHANGED <<jresult, jerror, jtasks, jlock, cpc, tcancel, cancelOk, ttimeout, tcancelReq>>
    /\ jcret' = <<>>

\* lines 131-136: the Exception handler
TaskMarksFailed(j) ==
    /\ UNCHANGED jOthers
    /\ tpc[j] = "wait_error" /\ ~tcancel[j]
    /\ jlock = "free" /\ Registered(j)
    /\ jstatus' = [jstatus EXCEPT ![j] = FAILED]
    /\ jerror' = [jerror EXCEPT ![j] = <<ErrorText(j)>>]
    /\ jcompleted' = [jcompleted EXCEPT ![j] = @ + 1]
    /\ tpc' = [tpc EXCEPT ![j] = "done_error"]
    /\ UNCHANGED <<jresult, jtasks, jlock, cpc, tcancel, cancelOk, ttimeout, tcancelReq>>
    /\ jcret' = <<>>

(***************************************************************************)
(* cancel_job (jobs.py 138-166)                                             *)
(***************************************************************************)
\* the mutant of CancelJobRefused: the test of the status left out
CancelJobUnchecked(j) ==
    /\ UNCHANGED jOthers
    /\ jlock = "free" /\ Registered(j)
    /\ jstatus[j] \notin {PENDING, RUNNING}
    /\ jstatus' = [jstatus EXCEPT ![j] = CANCELLED]
    /\ jcompleted' = [jcompleted EXCEPT ![j] = @ + 1]
    /\ cancelOk' = cancelOk \cup {j}
    /\ jcret' = <<j, TRUE>>
    /\ UNCHANGED <<jresult, jerror, jtasks, jlock, cpc, tpc, tcancel, ttimeout, tcancelReq>>

\* lines 149-156: unknown id, or a status that is neither Pending nor
\* Running: False
CancelJobRefused(j) ==
    /\ UNCHANGED jOthers
    /\ jlock = "free"
    /\ jstatus[j] \notin {PENDING, RUNNING}
    /\ jcret' = <<j, FALSE>>
    /\ UNCHANGED <<jstatus, jresult, jerror, jtasks, jlock, cpc, tpc, tcancel, ttimeout,
                   cancelOk, tcancelReq, jcompleted>>

\* lines 158-166: task.cancel() if the task is in self.tasks, status Cancelled
CancelJob(j) ==
    /\ UNCHANGED jOthers
    /\ jlock = "free" /\ Registered(j)
    /\ jstatus[j] \in {PENDING, RUNNING}
    /\ tcancel' = [tcancel EXCEPT ![j] = IF j \in jtasks /\ ~TaskDone(j) THEN TRUE ELSE @]
    /\ jstatus' = [jstatus EXCEPT ![j] = CANCELLED]
    /\ jcompleted' = [jcompleted EXCEPT ![j] = @ + 1]
    /\ cancelOk' = cancelOk \cup {j}
    /\ tcancelReq' = IF j \in jtasks THEN tcancelReq \cup {j} ELSE tcancelReq
    /\ jcret' = <<j, TRUE>>
    /\ UNCHANGED <<jresult, jerror, jtasks, jlock, cpc, tpc, ttimeout>>

(***************************************************************************)
(* shutdown (jobs.py 217-228)                                               *)
(***************************************************************************)
\* lines 219-226: under the lock, cancel every task that is not done, then
\* await gather with the lock held
ShutdownCancels ==
    /\ UNCHANGED jOthers
    /\ jlock = "free"
    /\ jtasks # {}
    /\ tcancel' = [j \in Jobs |-> IF j \in jtasks /\ ~TaskDone(j) THEN TRUE ELSE tcancel[j]]
    /\ tcancelReq' = tcancelReq \cup {j \in jtasks : ~TaskDone(j)}
    /\ jlock' = "shutdown"
    /\ UNCHANGED <<jstatus, jresult, jerror, jtasks, cpc, tpc, cancelOk, ttimeout, jcompleted>>
    /\ jcret' = <<>>

\* lines 226-228: gather returns once every task of self.tasks is done;
\* self.tasks is cleared and the lock released
ShutdownReturns ==
    /\ UNCHANGED jOthers
    /\ jlock = "shutdown"
    /\ \A j \in jtasks : TaskDone(j)
    /\ jtasks' = {}
    /\ jlock' = "free"
    /\ UNCHANGED <<jstatus, jresult, jerror, cpc, tpc, tcancel, cancelOk, ttimeout, tcancelReq, jcompleted>>
    /\ jcret' = <<>>

JNext ==
    \/ \E j \in Jobs :
        \/ CreateJobPending(j)
        \/ CreateJobRunning(j)
        \/ TaskStart(j)
        \/ TaskFuncReturns(j)
        \/ TaskFuncRaises(j)
        \/ TaskTimesOut(j)
        \/ TaskHonoursCancel(j)
        \/ TaskIgnoresCancel(j)
        \/ TaskCancelledAtLock(j)
        \/ TaskMarksCompleted(j)
        \/ TaskMarksCancelled(j)
        \/ TaskMarksTimedOut(j)
        \/ TaskMarksFailed(j)
        \/ CancelJobRefused(j)
        \/ CancelJob(j)
    \/ ShutdownCancels
    \/ ShutdownReturns

SpecJobs == Init /\ [][JNext]_vars

(***************************************************************************)
(* JobManager with tasks that honour cancellation, under the scheduling of  *)
(* the event loop: a task that is ready to run is run, a CancelledError     *)
(* that was requested is delivered, a coroutine waiting for the lock gets   *)
(* it once it is free, and gather wakes shutdown once every task is done.   *)
(* What task_func does of its own accord (return, raise, run into the       *)
(* timeout) and what the callers do is not forced.                          *)
(***************************************************************************)
JNextHonouring ==
    \/ \E j \in Jobs :
        \/ CreateJobPending(j)
        \/ CreateJobRunning(j)
        \/ TaskStart(j)
        \/ TaskFuncReturns(j)
        \/ TaskFuncRaises(j)
        \/ TaskTimesOut(j)
        \/ TaskHonoursCancel(j)
        \/ TaskCancelledAtLock(j)
        \/ TaskMarksCompleted(j)
        \/ TaskMarksCancelled(j)
        \/ TaskMarksTimedOut(j)
        \/ TaskMarksFailed(j)
        \/ CancelJobRefused(j)
        \/ CancelJob(j)
    \/ ShutdownCancels
    \/ ShutdownReturns

SpecJobsFair ==
    /\ Init /\ [][JNextHonouring]_vars
    /\ \A j \in Jobs :
        /\ WF_vars(CreateJobRunning(j))
        /\ WF_vars(TaskStart(j))
        /\ WF_vars(TaskHonoursCancel(j))
        /\ WF_vars(TaskCancelledAtLock(j))
        /\ WF_vars(TaskMarksCompleted(j))
        /\ WF_vars(TaskMarksCancelled(j))
        /\ WF_vars(TaskMarksTimedOut(j))
        /\ WF_vars(TaskMarksFailed(j))
    /\ WF_vars(ShutdownReturns)

(***************************************************************************)
(* JobManager: the claims                                                   *)
(***************************************************************************)
\* C3: once a job's status is Completed, Failed or Cancelled, no step of
\* create_job, of the task's handlers, of cancel_job or of shutdown changes
\* its status, its result or its error.
C3_TerminalIsFinal ==
    [][\A j \in Jobs :
          jstatus[j] \in Terminal =>
              /\ jstatus'[j] = jstatus[j]
              /\ jresult'[j] = jresult[j]
              /\ jerror'[j] = jerror[j]]_vars

\* C4: when cancel_job races with a task that returns normally, the job
\* ends as Cancelled or as Completed; and once cancel_job has returned True
\* the status is never Completed and the result stays unset, also when the
\* task swallowed the cancellation and returned normally.
C4_CancelledNeverCompleted ==
    \A j \in Jobs :
        /\ tpc[j] \in {"done_completed", "done_kept_cancelled", "done_cancelled"} =>
               jstatus[j] \in {COMPLETED, CANCELLED}
        /\ j \in cancelOk => (jstatus[j] # COMPLETED /\ jresult[j] = <<>>)

\* cancel_job returned True for one job whose task then returned normally
\* and found the status Cancelled, while another job completed
C4_Witness ==
    \E j, k \in Jobs :
        /\ j \in cancelOk
        /\ tpc[j] = "done_kept_cancelled"
        /\ jstatus[j] = CANCELLED /\ jresult[j] = <<>>
        /\ tpc[k] = "done_completed" /\ jstatus[k] = COMPLETED

\* the status changes the state machine allows
LifecycleEdges ==
    { <<"absent", PENDING>>, <<PENDING, RUNNING>>, <<RUNNING, COMPLETED>>,
      <<RUNNING, FAILED>>, <<RUNNING, CANCELLED>>, <<PENDING, CANCELLED>> }

\* C5: every change of a job's status follows one of the edges
\* Pending->Running, Running->Completed, Running->Failed,
\* Running->Cancelled, Pending->Cancelled (after the record's creation).
C5_OnlyLifecycleEdges ==
    [][\A j \in Jobs :
          jstatus'[j] # jstatus[j] => <<jstatus[j], jstatus'[j]>> \in LifecycleEdges]_vars

\* C14: cancel_job(id) returns False and changes no record when the id is
\* unknown or the job is Completed, Failed or Cancelled, so that a second
\* cancel of a job returns False; otherwise it returns True and the status
\* is Cancelled when the call has returned.
C14_CancelJobReturn ==
    [][\A j \in Jobs : \A ret \in BOOLEAN :
          jcret' = <<j, ret>> =>
              /\ ret = (jstatus[j] \in {PENDING, RUNNING})
              /\ j \in cancelOk => ~ret
              /\ ret => jstatus'[j] = CANCELLED
              /\ ~ret => UNCHANGED <<jstatus, jresult, jerror, jcompleted, jtasks, cancelOk>>]_vars

\* cancel_job returned True for a job, and the second cancel_job of that
\* job has just returned False
C14_Witness ==
    \E j \in Jobs :
        /\ j \in cancelOk
        /\ jcret = <<j, FALSE>>
        /\ jstatus[j] = CANCELLED

\* C15: a job with a timeout whose task was running when the timeout
\* elapsed and whose cancellation nobody requested is never Completed, its
\* task_func is not left running, and once its task has ended it is Failed
\* with the error that says it timed out.
C15_TimeoutFails ==
    \A j \in Jobs :
        (ttimeout[j] = "elapsed" /\ j \notin tcancelReq /\ j \notin cancelOk) =>
            /\ jstatus[j] # COMPLETED
            /\ ~Started(j)
            /\ tpc[j] \in TaskEnds =>
                  (jstatus[j] = FAILED /\ jerror[j] = <<"timed out">>)

\* C16: for a job with a timeout, if cancel_job returned True before a
\* timeout outcome was recorded, the job ends as Cancelled without the
\* timeout error; if the timeout outcome was recorded first, the job is
\* Failed and a later cancel_job returns False.
C16_TimeoutXorCancel ==
    [][\A j \in Jobs :
          /\ (ttimeout'[j] # "off" /\ j \in cancelOk' /\ tpc'[j] \in TaskEnds) =>
                (jstatus'[j] = CANCELLED /\ jerror'[j] # <<"timed out">>)
          /\ (tpc[j] = "done_timeout" /\ j \notin cancelOk) =>
                /\ jstatus[j] = FAILED
                /\ jcret' # <<j, TRUE>>]_vars

\* C17: shutdown, once it has been called and has cancelled the tasks,
\* eventually returns, the tasks honouring cancellation.
C17_ShutdownReturns ==
    (jlock = "shutdown") ~> (jlock = "free")

\* C18: when shutdown returns, every job of the job table is Completed,
\* Failed or Cancelled.
C18_ShutdownLeavesTerminal ==
    [][(jlock = "shutdown" /\ jlock' = "free") =>
          \A j \in Jobs : jstatus'[j] \in Terminal \cup {"absent"}]_vars

\* C19: completed_at is unset while a job is Pending or Running, and it is
\* written only by the step that takes the job into a terminal status,
\* once.
C19_CompletedAtOnce ==
    [][\A j \in Jobs :
          /\ jstatus'[j] \in {PENDING, RUNNING} => jcompleted'[j] = 0
          /\ jcompleted'[j] # jcompleted[j] =>
                /\ jcompleted[j] = 0
                /\ jstatus[j] \notin Terminal
                /\ jstatus'[j] \in Terminal]_vars

\* C20: the result is set only when the status is Completed, the error only
\* when it is Failed; a Completed job holds what its task returned, a
\* Failed job holds an error; the two are never both set.
C20_ResultErrorStatus ==
    \A j \in Jobs :
        /\ jresult[j] # <<>> => jstatus[j] = COMPLETED
        /\ jerror[j] # <<>> => jstatus[j] = FAILED
        /\ jstatus[j] = COMPLETED => jresult[j] = TaskResult(j)
        /\ jstatus[j] = FAILED => jerror[j] # <<>>
        /\ ~(jresult[j] # <<>> /\ jerror[j] # <<>>)

\* one job is Completed with its result; another, which cancel_job had
\* made Cancelled, is Failed with its error
C20_Witness ==
    \E j, k \in Jobs :
        /\ jstatus[j] = COMPLETED /\ jresult[j] # <<>> /\ jerror[j] = <<>>
        /\ jstatus[k] = FAILED /\ jerror[k] # <<>> /\ jresult[k] = <<>>
        /\ k \in cancelOk

\* C25: every job create_job has created eventually reaches a terminal
\* status, provided its task function does not run for ever (it returns, it
\* raises, or its timeout ends it); and where no task is ever cancelled, a
\* job whose task function has returned eventually is Completed with the
\* result of its own task.
C25_EventuallyTerminal ==
    \A j \in Jobs :
        /\ ([]<>~Started(j)) =>
              ((jstatus[j] \in {PENDING, RUNNING}) ~> (jstatus[j] \in Terminal))
        /\ ([](tcancelReq = {})) =>
              ((tpc[j] = "wait_complete") ~>
                  (jstatus[j] = COMPLETED /\ jresult[j] = TaskResult(j)))

(***************************************************************************)
(* RateLimiter: the steps.                                                  *)
(***************************************************************************)
\* time passes between two calls
ClockAdvances ==
    /\ UNCHANGED rOthers
    /\ UNCHANGED mvars
    /\ rnow + TickSeconds <= MaxTime
    /\ rnow' = rnow + TickSeconds
    /\ rgranted' = [i \in Identifiers |-> 0]
    /\ UNCHANGED <<rminute, rday, rres, rtier, rfirst, rnth, rallowed>>

\* The body of check_rate_limit(identifier, tier): the coroutine has no
\* await in its body, so the event loop runs it in one piece.  The caller
\* (RateLimitMiddleware.dispatch) passes the tier that belongs to the
\* identifier, so an identifier keeps the tier of its first request.
CheckRateLimitBody(identifier, tier) ==
    LET limits == get_limits(tier)
        now == rnow
        \* _clean_old_entries(identifier, now)
        minute == KeepRecent(rminute[StoreKey(identifier)], now, 60)
        day == KeepRecent(rday[StoreKey(identifier)], now, 86400)
        minute_requests == SumCounts(minute)
        minute_limit == limits.requests_per_minute
        reset_at == now + 60
        first == IF rfirst[identifier] = -1 THEN now ELSE rfirst[identifier]
        nth == IF now - first < 60
               THEN (IF rnth[identifier] > minute_limit
                     THEN rnth[identifier] ELSE rnth[identifier] + 1)
               ELSE rnth[identifier]
    IN  /\ UNCHANGED rOthers
        /\ rtier[identifier] \in {"none", tier}
        /\ rtier' = [rtier EXCEPT ![identifier] = tier]
        /\ rfirst' = [rfirst EXCEPT ![identifier] = first]
        /\ rnth' = [rnth EXCEPT ![identifier] = nth]
        /\ UNCHANGED rnow
        /\ IF OverLimit(minute_requests, minute_limit)
           THEN /\ rminute' = [rminute EXCEPT ![StoreKey(identifier)] = minute]
                /\ rday' = [rday EXCEPT ![StoreKey(identifier)] = day]
                /\ UNCHANGED <<rgranted, rallowed>>
                /\ rres' = [op |-> "check", identifier |-> identifier, tier |-> tier,
                            nth |-> IF now - first < 60 THEN nth ELSE 0,
                            allowed |-> FALSE, limit |-> minute_limit,
                            remaining |-> 0, reset_at |-> reset_at,
                            retry_after |-> reset_at - now]
           ELSE /\ rminute' = [rminute EXCEPT ![StoreKey(identifier)] = RecordHit(minute, now)]
                /\ rday' = [rday EXCEPT ![StoreKey(identifier)] = RecordHit(day, now)]
                /\ rgranted' = [rgranted EXCEPT ![identifier] = @ + 1]
                /\ rallowed' = [rallowed EXCEPT ![identifier] = Append(@, now)]
                /\ rres' = [op |-> "check", identifier |-> identifier, tier |-> tier,
                            nth |-> IF now - first < 60 THEN nth ELSE 0,
                            allowed |-> TRUE, limit |-> minute_limit,
                            remaining |-> minute_limit - minute_requests - 1,
                            reset_at |-> reset_at, retry_after |-> 0]

\* a call of check_rate_limit on its own (the middleware is not involved)
check_rate_limit(identifier, tier) ==
    /\ CheckRateLimitBody(identifier, tier)
    /\ UNCHANGED mvars

RNext ==
    \/ ClockAdvances
    \/ \E identifier \in Identifiers, tier \in Tiers : check_rate_limit(identifier, tier)

SpecRate == Init /\ [][RNext]_vars

\* C6: for an identifier with no recorded hits and a tier of per-minute
\* quota N, each of the first N calls made less than 60 seconds after the
\* first one returns allowed = true, and the (N+1)th call in those 60
\* seconds returns allowed = false, remaining = 0 and retry_after > 0.
C6_QuotaBoundary ==
    (rres.op = "check" /\ rres.nth > 0) =>
        /\ rres.nth <= rres.limit => rres.allowed
        /\ rres.nth = rres.limit + 1 =>
               (~rres.allowed /\ rres.remaining = 0 /\ rres.retry_after > 0)

\* the (N+1)th call of an identifier, made later than its first call and
\* less than 60 seconds after it, is denied
C6_Witness ==
    /\ rres.op = "check"
    /\ rres.limit = RateLimitApiKey
    /\ rres.nth = rres.limit + 1
    /\ rnow > rfirst[rres.identifier]
    /\ rnow - rfirst[rres.identifier] < 60
    /\ ~rres.allowed
    /\ rres.retry_after > 0

\* C12: the windows of an identifier change only in a check_rate_limit call
\* for that identifier, so whatever another identifier has used up, an
\* identifier's first call is allowed and returns remaining = N - 1.
C12_Isolation ==
    [][/\ \A y \in Identifiers :
            (rminute'[y] # rminute[y] \/ rday'[y] # rday[y]) =>
                (rres'.op = "check" /\ rres'.identifier = y)
       /\ (rres'.op = "check" /\ rres'.nth = 1) =>
            (rres'.allowed /\ rres'.remaining = rres'.limit - 1)]_vars

\* x has used up its quota and was denied; y's first call, in the same
\* minute, was allowed with remaining = N - 1
C12_Witness ==
    /\ rres.op = "check" /\ rres.identifier = "y" /\ rres.nth = 1
    /\ rres.allowed /\ rres.remaining = rres.limit - 1
    /\ rtier["x"] = rtier["y"]
    /\ rnth["x"] > rres.limit
    /\ SumCounts(KeepRecent(rminute["x"], rnow, 60)) = rres.limit

\* the hits of an identifier that were recorded before the present clock
\* reading and are still inside the minute window
EarlierHits(identifier) ==
    SumCounts(SelectSeq(rminute[identifier],
                        LAMBDA e : e[1] < rnow /\ rnow - e[1] < 60))

\* C13: of the check_rate_limit calls made for one identifier at a moment
\* when exactly one slot of its minute window is free, whatever their
\* number and order, at most one returns allowed = true.
C13_OneSlotOneGrant ==
    \A i \in Identifiers :
        (rtier[i] # "none" /\
         get_limits(rtier[i]).requests_per_minute - EarlierHits(i) = 1) =>
            rgranted[i] <= 1

\* one slot was free for x; of the calls made at that moment one was
\* allowed and the latest one was denied
C13_Witness ==
    /\ rtier["x"] # "none"
    /\ EarlierHits("x") >= 1
    /\ get_limits(rtier["x"]).requests_per_minute - EarlierHits("x") = 1
    /\ rgranted["x"] = 1
    /\ rres.op = "check" /\ rres.identifier = "x" /\ ~rres.allowed
    /\ rres.reset_at = rnow + 60

\* the allowed calls of an identifier made less than 60 seconds before now
RecentAllowed(identifier, now) ==
    Cardinality({k \in 1..Len(rallowed[identifier]) :
                    now - rallowed[identifier][k] < 60})

\* C30: a check_rate_limit call at time t for identifier X of a tier with
\* per-minute quota N is allowed if and only if fewer than N of the calls
\* allowed for X before it have a timestamp ts with t - ts < 60; a denied
\* call records no hit in either window.
C30_SlidingWindow ==
    [][(rnow' = rnow /\ UNCHANGED mvars) =>
          LET X == rres'.identifier
              N == get_limits(rres'.tier).requests_per_minute
          IN  /\ rres'.op = "check"
              /\ rres'.allowed <=> (RecentAllowed(X, rnow) < N)
              /\ ~rres'.allowed =>
                    /\ SumCounts(rminute'[X]) = SumCounts(KeepRecent(rminute[X], rnow, 60))
                    /\ SumCounts(rday'[X]) = SumCounts(KeepRecent(rday[X], rnow, 86400))
              /\ rres'.allowed =>
                    SumCounts(rminute'[X]) = RecentAllowed(X, rnow) + 1]_vars

\* x used up its quota at time 0 and was denied; 60 seconds later those hits
\* no longer count and its call is allowed
C30_Witness ==
    /\ rres.op = "check" /\ rres.identifier = "x" /\ rres.allowed
    /\ rnow = 60
    /\ Len(rallowed["x"]) = rres.limit + 1
    /\ \A k \in 1..rres.limit : rallowed["x"][k] = 0
    /\ rallowed["x"][rres.limit + 1] = 60
    /\ rnth["x"] > rres.limit

\* the allowed calls of an identifier made less than 86400 seconds before now
DayAllowed(identifier, now) ==
    Cardinality({k \in 1..Len(rallowed[identifier]) :
                    now - rallowed[identifier][k] < 86400})

\* C31: no call is denied on account of the day window: a call is allowed
\* whenever fewer than requests_per_minute allowed calls lie in the minute
\* window, whatever the number of allowed calls of the last 86400 seconds,
\* the tier's requests_per_day and more included.
C31_DayWindowNeverDenies ==
    [][(rnow' = rnow /\ UNCHANGED mvars) =>
          LET X == rres'.identifier
              limits == get_limits(rres'.tier)
          IN  /\ ~rres'.allowed => RecentAllowed(X, rnow) >= limits.requests_per_minute
              /\ (DayAllowed(X, rnow) >= limits.requests_per_day
                      /\ RecentAllowed(X, rnow) < limits.requests_per_minute) =>
                    rres'.allowed]_vars

\* x had used up the requests_per_day of its tier, all within the last
\* 86400 seconds, and its next call was allowed
C31_Witness ==
    /\ rres.op = "check" /\ rres.identifier = "x" /\ rres.allowed
    /\ rallowed["x"] # <<>>
    /\ rallowed["x"][Len(rallowed["x"])] = rnow
    /\ rgranted["x"] = 1
    /\ DayAllowed("x", rnow) - 1 >= get_limits(rres.tier).requests_per_day
    /\ rnow < 86400

(***************************************************************************)
(* RateLimitMiddleware.dispatch (ratelimit.py 139-187).  One request is     *)
(* followed from the call of dispatch to the response: tier, identifier and *)
(* result are locals of the call, so requests in flight at the same time    *)
(* share nothing but the limiter.                                           *)
(***************************************************************************)
\* the clients whose requests pass the middleware
MiddlewareClients == {"x"}
\* the status codes the downstream handler answers with
DownstreamStatus == {200, 404, 500}

\* str(n) of an integer: the decimal string, kept apart from the number
Str(n) == <<"str", n>>

\* headers after the assignments `headers[name] = value` for the names of new
SetHeaders(headers, new) ==
    [h \in DOMAIN headers \cup DOMAIN new |->
        IF h \in DOMAIN new THEN new[h] ELSE headers[h]]

\* a variant that leaves Retry-After out of the 429 response
DeniedHeadersNoRetryAfter(result) ==
    [h \in {"X-RateLimit-Limit", "X-RateLimit-Remaining", "X-RateLimit-Reset"} |->
        CASE h = "X-RateLimit-Limit" -> Str(result.limit)
          [] h = "X-RateLimit-Remaining" -> Str(0)
          [] h = "X-RateLimit-Reset" -> Str(result.reset_at)]

\* the headers of the JSONResponse of a denied request
DeniedHeaders(result) ==
    [h \in {"X-RateLimit-Limit", "X-RateLimit-Remaining", "X-RateLimit-Reset",
            "Retry-After"} |->
        CASE h = "X-RateLimit-Limit" -> Str(result.limit)
          [] h = "X-RateLimit-Remaining" -> Str(0)
          [] h = "X-RateLimit-Reset" -> Str(result.reset_at)
          [] h = "Retry-After" -> Str(result.retry_after)]

\* the headers dispatch sets on the response call_next returned
AllowedHeaders(result) ==
    [h \in {"X-RateLimit-Limit", "X-RateLimit-Remaining", "X-RateLimit-Reset"} |->
        CASE h = "X-RateLimit-Limit" -> Str(result.limit)
          [] h = "X-RateLimit-Remaining" -> Str(result.remaining)
          [] h = "X-RateLimit-Reset" -> Str(result.reset_at)]

\* the response of the downstream handler
DownstreamResponse(status_code) ==
    [status_code |-> status_code, from |-> "downstream",
     headers |-> [h \in {"content-type"} |-> "application/json"]]

\* dispatch, from its call to the first await that yields: the limiter is
\* asked (it has no await in its body), and a denied request is answered at
\* once, while an allowed one is handed to call_next.
dispatch(identifier, tier) ==
    /\ mpc \in {"idle", "responded", "raised"}
    /\ CheckRateLimitBody(identifier, tier)
    /\ mresult' = rres'
    /\ IF ~rres'.allowed
       THEN /\ mpc' = "responded"
            /\ mcalls' = 0
            /\ mresponse' = [status_code |-> 429, from |-> "middleware",
                             headers |-> DeniedHeaders(rres')]
       ELSE /\ mpc' = "downstream"
            /\ mcalls' = 1
            /\ mresponse' = <<>>

\* call_next returns the handler's response; dispatch adds its headers
DownstreamResponds(status_code) ==
    /\ UNCHANGED rOthers
    /\ UNCHANGED rvars
    /\ mpc = "downstream"
    /\ mpc' = "responded"
    /\ mresponse' = [DownstreamResponse(status_code) EXCEPT
                        !.headers = SetHeaders(@, AllowedHeaders(mresult))]
    /\ UNCHANGED <<mresult, mcalls>>

\* call_next raises: the exception leaves dispatch, which returns nothing
DownstreamRaises ==
    /\ UNCHANGED rOthers
    /\ UNCHANGED rvars
    /\ mpc = "downstream"
    /\ mpc' = "raised"
    /\ UNCHANGED <<mresult, mresponse, mcalls>>

MNext ==
    \/ ClockAdvances
    \/ \E identifier \in MiddlewareClients, tier \in Tiers : dispatch(identifier, tier)
    \/ \E status_code \in DownstreamStatus : DownstreamResponds(status_code)
    \/ DownstreamRaises

SpecMiddleware == Init /\ [][MNext]_vars

RateLimitHeaders == {"X-RateLimit-Limit", "X-RateLimit-Remaining", "X-RateLimit-Reset"}

\* C24: a request the limiter denies is answered with status 429 carrying
\* X-RateLimit-Limit, X-RateLimit-Remaining, X-RateLimit-Reset and
\* Retry-After, and the downstream handler is never invoked for it; a request
\* the limiter allows invokes the downstream handler once and the handler's
\* response carries the three X-RateLimit headers.
C24_DenyOrForward ==
    mresult # <<>> =>
        IF ~mresult.allowed
        THEN /\ mcalls = 0
             /\ mpc = "responded"
             /\ mresponse.status_code = 429
             /\ mresponse.from = "middleware"
             /\ (RateLimitHeaders \cup {"Retry-After"}) \subseteq DOMAIN mresponse.headers
        ELSE /\ mcalls = 1
             /\ mpc \in {"downstream", "responded", "raised"}
             /\ mpc = "responded" =>
                   /\ mresponse.from = "downstream"
                   /\ RateLimitHeaders \subseteq DOMAIN mresponse.headers
                   /\ "content-type" \in DOMAIN mresponse.headers

C24_Witness ==
    /\ mpc = "responded"
    /\ ~mresult.allowed
    /\ mresponse.status_code = 429
    /\ mresponse.headers["Retry-After"] = Str(60)
    /\ mresponse.headers["X-RateLimit-Remaining"] = Str(0)
    /\ mcalls = 0
    /\ rnow = 30

(***************************************************************************)
(* WebhookNotifier._send_webhook: the steps.  Each attempt awaits           *)
(* self.client.post once; a step is one attempt together with what the loop *)
(* does with its outcome.                                                   *)
(***************************************************************************)
\* _send_webhook(url, payload, timeout, max_retries) is called: what it
\* does to the notifier's state
SendWebhookBody(max_retries) ==
    /\ wpc \in {"idle", "returned"}
    /\ wmax' = max_retries
    /\ wattempt' = 0
    /\ woutcomes' = <<>>
    /\ IF 0 \in AttemptRange(max_retries)
       THEN wpc' = "sending" /\ wret' = <<>>
       ELSE wpc' = "returned" /\ wret' = <<FALSE>>

\* the loop goes on to the next attempt, or is exhausted (notifications.py 302-304)
NextAttempt ==
    IF wattempt + 1 \in AttemptRange(wmax)
    THEN wpc' = "sending" /\ wattempt' = wattempt + 1 /\ wret' = <<>>
    ELSE wpc' = "returned" /\ wattempt' = wattempt /\ wret' = <<FALSE>>

\* _send_webhook called on its own
SendWebhook(max_retries) ==
    /\ UNCHANGED wOthers
    /\ SendWebhookBody(max_retries)

\* the post returns a response: what the loop does with it
PostRespondsBody(status_code) ==
    /\ wpc = "sending"
    /\ woutcomes' = Append(woutcomes, [kind |-> "response", status_code |-> status_code])
    /\ UNCHANGED wmax
    /\ IF IsSuccess(status_code)
       THEN wpc' = "returned" /\ wret' = <<TRUE>> /\ UNCHANGED wattempt
       ELSE IF NoRetryStatus(status_code)
            THEN wpc' = "returned" /\ wret' = <<FALSE>> /\ UNCHANGED wattempt
            ELSE NextAttempt

\* the post returns a response
PostResponds(status_code) ==
    /\ UNCHANGED wOthers
    /\ PostRespondsBody(status_code)

\* the post raises: what the handlers of the loop do
PostRaisesBody(exc) ==
    /\ wpc = "sending"
    /\ woutcomes' = Append(woutcomes, [kind |-> exc])
    /\ UNCHANGED wmax
    /\ IF exc \in {"TimeoutException", "RequestError"}
       THEN NextAttempt
       ELSE wpc' = "returned" /\ wret' = <<FALSE>> /\ UNCHANGED wattempt

\* the post raises
PostRaises(exc) ==
    /\ UNCHANGED wOthers
    /\ PostRaisesBody(exc)

WNext ==
    \/ \E max_retries \in 0..MaxRetries : SendWebhook(max_retries)
    \/ \E status_code \in StatusCodes : PostResponds(status_code)
    \/ \E exc \in PostExceptions : PostRaises(exc)

SpecWebhook == Init /\ [][WNext]_vars

\* the outcomes the claims call retryable: a response with status >= 500,
\* a transport timeout, a connection error
Retryable(o) ==
    \/ o.kind = "response" /\ o.status_code >= 500
    \/ o.kind \in {"TimeoutException", "RequestError"}
\* the outcomes the claims call non-retryable: a response that is not 2xx
\* and below 500, an unexpected exception
NonRetryable(o) ==
    \/ o.kind = "response" /\ o.status_code < 500
          /\ ~(o.status_code >= 200 /\ o.status_code < 300)
    \/ o.kind = "Exception"

AllRetryable == \A i \in 1..Len(woutcomes) : Retryable(woutcomes[i])

\* C7: when every attempt ends in a retryable failure, _send_webhook with
\* max_retries = R makes exactly R+1 attempts and then returns false: it
\* never makes more, it has not returned before the (R+1)th, and after the
\* (R+1)th it has returned false.
C7_RetryBudget ==
    (wpc # "idle" /\ AllRetryable) =>
        /\ Len(woutcomes) <= wmax + 1
        /\ (wpc = "returned") <=> (Len(woutcomes) = wmax + 1)
        /\ wpc = "returned" => wret = <<FALSE>>

\* three retryable failures of different kinds with max_retries = 2
C7_Witness ==
    /\ wpc = "returned"
    /\ wmax = 2
    /\ Len(woutcomes) = 3
    /\ AllRetryable
    /\ woutcomes[1].kind = "TimeoutException"
    /\ woutcomes[2].kind = "response"
    /\ woutcomes[3].kind = "RequestError"
    /\ wret = <<FALSE>>

\* C8: a non-retryable outcome on any attempt ends the delivery at once:
\* it is the last attempt made, _send_webhook has returned, and the value
\* is false, whatever retry budget remains.
C8_FatalStopsAtOnce ==
    \A i \in 1..Len(woutcomes) :
        NonRetryable(woutcomes[i]) =>
            /\ i = Len(woutcomes)
            /\ wpc = "returned"
            /\ wret = <<FALSE>>

\* a 3xx answer on the second of three possible attempts ended the delivery
C8_Witness ==
    /\ wpc = "returned"
    /\ wmax = 2
    /\ Len(woutcomes) = 2
    /\ Retryable(woutcomes[1])
    /\ woutcomes[2] = [kind |-> "response", status_code |-> 300]
    /\ wret = <<FALSE>>

\* an attempt that received a 2xx response
TwoXX(o) == o.kind = "response" /\ o.status_code \in 200..299

\* C23: a 2xx response on attempt k, after k-1 retryable failures, ends the
\* delivery: it is the last attempt made and _send_webhook has returned
\* true after exactly k attempts, k <= max_retries + 1; and _send_webhook
\* returns true only if its last attempt received a 2xx response.
C23_SuccessStops ==
    /\ \A k \in 1..Len(woutcomes) :
          TwoXX(woutcomes[k]) =>
              /\ k = Len(woutcomes)
              /\ k <= wmax + 1
              /\ \A i \in 1..(k - 1) : Retryable(woutcomes[i])
              /\ wpc = "returned"
              /\ wret = <<TRUE>>
    /\ wret = <<TRUE>> =>
          (woutcomes # <<>> /\ TwoXX(woutcomes[Len(woutcomes)]))

\* a timeout, a 503, then a 299 on the third and last possible attempt
C23_Witness ==
    /\ wpc = "returned"
    /\ wmax = 2
    /\ Len(woutcomes) = 3
    /\ woutcomes[1].kind = "TimeoutException"
    /\ woutcomes[2] = [kind |-> "response", status_code |-> 503]
    /\ woutcomes[3] = [kind |-> "response", status_code |-> 299]
    /\ wret = <<TRUE>>

(***************************************************************************)
(* BatchWorker.process_job: the steps.  conversation_ids is the list        *)
(* 1..btotal; the for loop takes its items in that order.  The notifier's   *)
(* send_* coroutines return a bool and catch every Exception                *)
(* (notifications.py 294-300), so a send never raises into process_job.     *)
(***************************************************************************)
\* process_job(job) is called (worker.py 81-88)
ProcessJob(total, callback) ==
    /\ UNCHANGED bOthers
    /\ bpc \in {"idle", "done", "cancelled"}
    /\ bpc' = "items"
    /\ btotal' = total
    /\ bcallback' = callback
    /\ bidx' = 0
    /\ bcompleted' = 0
    /\ bfailed' = 0
    /\ boutcomes' = <<>>
    /\ bsent' = <<>>

\* the mutant of ItemInvalid: a validation failure leaves the loop
ItemInvalidStopsBatch ==
    /\ UNCHANGED bOthers
    /\ bpc = "items"
    /\ bidx < btotal
    /\ bidx' = btotal
    /\ bfailed' = bfailed + 1
    /\ boutcomes' = Append(boutcomes, <<bidx + 1, "invalid">>)
    /\ UNCHANGED <<bpc, btotal, bcallback, bcompleted, bsent>>

\* the next item fails validation (worker.py 96-103): counted, then continue
ItemInvalid ==
    /\ UNCHANGED bOthers
    /\ bpc = "items"
    /\ bidx < btotal
    /\ bidx' = bidx + 1
    /\ bfailed' = bfailed + 1
    /\ boutcomes' = Append(boutcomes, <<bidx + 1, "invalid">>)
    /\ UNCHANGED <<bpc, btotal, bcallback, bcompleted, bsent>>

\* validate or analyze raises for the next item (worker.py 128-131)
ItemRaises ==
    /\ UNCHANGED bOthers
    /\ bpc = "items"
    /\ bidx < btotal
    /\ bidx' = bidx + 1
    /\ bfailed' = bfailed + 1
    /\ boutcomes' = Append(boutcomes, <<bidx + 1, "raised">>)
    /\ UNCHANGED <<bpc, btotal, bcallback, bcompleted, bsent>>

\* a variant of ItemSucceeds: a progress webhook after every item
ItemSucceedsSendsAlways ==
    /\ UNCHANGED bOthers
    /\ bpc = "items"
    /\ bidx < btotal
    /\ bidx' = bidx + 1
    /\ bcompleted' = bcompleted + 1
    /\ boutcomes' = Append(boutcomes, <<bidx + 1, "completed">>)
    /\ IF bcallback
       THEN bsent' = Append(bsent,
                build_batch_progress_payload(btotal, bcompleted + 1, bfailed))
       ELSE bsent' = bsent
    /\ UNCHANGED <<bpc, btotal, bcallback, bfailed>>

\* the next item is analysed (worker.py 106-126): counted, then the
\* progress update
ItemSucceeds ==
    /\ UNCHANGED bOthers
    /\ bpc = "items"
    /\ bidx < btotal
    /\ bidx' = bidx + 1
    /\ bcompleted' = bcompleted + 1
    /\ boutcomes' = Append(boutcomes, <<bidx + 1, "completed">>)
    /\ IF DecileTest(bcompleted + 1 + bfailed, btotal) /\ bcallback
       THEN bsent' = Append(bsent,
                build_batch_progress_payload(btotal, bcompleted + 1, bfailed))
       ELSE bsent' = bsent
    /\ UNCHANGED <<bpc, btotal, bcallback, bfailed>>

\* the loop is over (worker.py 133-145): the completion webhook
BatchCompletes ==
    /\ UNCHANGED bOthers
    /\ bpc = "items"
    /\ bidx >= btotal
    /\ bpc' = "done"
    /\ IF bcallback
       THEN bsent' = Append(bsent,
                build_batch_complete_payload(btotal, bcompleted, bfailed))
       ELSE bsent' = bsent
    /\ UNCHANGED <<btotal, bcallback, bidx, bcompleted, bfailed, boutcomes>>

\* the worker's task is cancelled while process_job awaits analyze or a
\* send: CancelledError is not an Exception, so neither the handler of the
\* item (worker.py 128) nor the handler of the batch (worker.py 147) takes
\* it, and it leaves process_job (start catches it, worker.py 61-63)
ProcessJobCancelled ==
    /\ UNCHANGED bOthers
    /\ bpc = "items"
    /\ bidx < btotal \/ bcallback
    /\ bpc' = "cancelled"
    /\ UNCHANGED <<btotal, bcallback, bidx, bcompleted, bfailed, boutcomes, bsent>>

BNext ==
    \/ \E total \in 0..MaxItems, callback \in BOOLEAN : ProcessJob(total, callback)
    \/ ItemInvalid
    \/ ItemRaises
    \/ ItemSucceeds
    \/ BatchCompletes
    \/ ProcessJobCancelled

SpecWorker == Init /\ [][BNext]_vars

\* process_job for batches with a callback URL whose items all succeed
PNext ==
    \/ \E total \in 1..MaxTotal : ProcessJob(total, TRUE)
    \/ ItemSucceeds
    \/ BatchCompletes

SpecProgress == Init /\ [][PNext]_vars

(***************************************************************************)
(* BatchWorker.start and stop (worker.py 46-72).  start() yields only at    *)
(* its three awaits: queue.dequeue(timeout=5), process_job(job) and         *)
(* asyncio.sleep(1); the test of `while self.running` and the call of the   *)
(* next dequeue follow the end of an iteration without a yield.  What the   *)
(* queue and process_job do inside is left open here: a dequeue returns a   *)
(* job or None or raises, process_job returns or raises.                    *)
(***************************************************************************)
\* `while self.running:` after an iteration: the next dequeue, or the end
LoopTest ==
    IF lrunning
    THEN /\ Len(liter') < MaxIterations
         /\ lpc' = "dequeue"
    ELSE lpc' = "returned"

\* start() is called: running = True, and the first dequeue is awaited
StartRuns ==
    /\ UNCHANGED lOthers
    /\ lpc = "idle"
    /\ lrunning' = TRUE
    /\ lpc' = "dequeue"
    /\ UNCHANGED <<lcurrent, liter, lstopAt, lcancelAt>>

\* dequeue returns None (nothing arrived within the timeout): `if job` fails
DequeueReturnsNone ==
    /\ UNCHANGED lOthers
    /\ lpc = "dequeue"
    /\ liter' = Append(liter, "none")
    /\ LoopTest
    /\ UNCHANGED <<lrunning, lcurrent, lstopAt, lcancelAt>>

\* dequeue returns a job: current_job = job, process_job(job) is awaited
DequeueReturnsJob ==
    /\ UNCHANGED lOthers
    /\ lpc = "dequeue"
    /\ lpc' = "process"
    /\ lcurrent' = TRUE
    /\ UNCHANGED <<lrunning, liter, lstopAt, lcancelAt>>

\* a variant of DequeueRaises: the exception leaves start()
DequeueRaisesUncaught ==
    /\ UNCHANGED lOthers
    /\ lpc = "dequeue"
    /\ liter' = Append(liter, "dequeue_raised")
    /\ lpc' = "returned"
    /\ UNCHANGED <<lrunning, lcurrent, lstopAt, lcancelAt>>

\* dequeue raises an Exception (lines 64-66): logged, sleep(1) is awaited
DequeueRaises ==
    /\ UNCHANGED lOthers
    /\ lpc = "dequeue"
    /\ liter' = Append(liter, "dequeue_raised")
    /\ lpc' = "sleep"
    /\ UNCHANGED <<lrunning, lcurrent, lstopAt, lcancelAt>>

\* process_job returns: current_job = None
ProcessJobReturns ==
    /\ UNCHANGED lOthers
    /\ lpc = "process"
    /\ lcurrent' = FALSE
    /\ liter' = Append(liter, "job_done")
    /\ LoopTest
    /\ UNCHANGED <<lrunning, lstopAt, lcancelAt>>

\* process_job raises an Exception (lines 64-66); current_job stays set
ProcessJobRaises ==
    /\ UNCHANGED lOthers
    /\ lpc = "process"
    /\ liter' = Append(liter, "process_raised")
    /\ lpc' = "sleep"
    /\ UNCHANGED <<lrunning, lcurrent, lstopAt, lcancelAt>>

\* the pause of the exception handler is over
SleepEnds ==
    /\ UNCHANGED lOthers
    /\ lpc = "sleep"
    /\ UNCHANGED <<lrunning, lcurrent, liter, lstopAt, lcancelAt>>
    /\ LoopTest

\* the worker's task is cancelled while the try block awaits (lines 61-63):
\* break
CancelledInTry ==
    /\ UNCHANGED lOthers
    /\ lpc \in {"dequeue", "process"}
    /\ lcancelAt' = lpc
    /\ lpc' = "returned"
    /\ UNCHANGED <<lrunning, lcurrent, liter, lstopAt>>

\* the worker's task is cancelled during the pause: the CancelledError is
\* raised inside the handler and leaves start()
CancelledInPause ==
    /\ UNCHANGED lOthers
    /\ lpc = "sleep"
    /\ lcancelAt' = "sleep"
    /\ lpc' = "cancelled"
    /\ UNCHANGED <<lrunning, lcurrent, liter, lstopAt>>

\* a variant of Stop that leaves the flag alone
StopKeepsRunning ==
    /\ UNCHANGED lOthers
    /\ lstopAt = "none"
    /\ lpc \notin {"returned", "cancelled"}
    /\ lstopAt' = lpc
    /\ UNCHANGED <<lpc, lrunning, lcurrent, liter, lcancelAt>>

\* stop() (lines 70-72), called from another coroutine while start() is
\* not running, that is while it waits at one of its awaits
Stop ==
    /\ UNCHANGED lOthers
    /\ lstopAt = "none"
    /\ lpc \notin {"returned", "cancelled"}
    /\ lrunning' = FALSE
    /\ lstopAt' = lpc
    /\ UNCHANGED <<lpc, lcurrent, liter, lcancelAt>>

LNext ==
    \/ StartRuns
    \/ DequeueReturnsNone
    \/ DequeueReturnsJob
    \/ DequeueRaises
    \/ ProcessJobReturns
    \/ ProcessJobRaises
    \/ SleepEnds
    \/ CancelledInTry
    \/ CancelledInPause
    \/ Stop

SpecLoop == Init /\ [][LNext]_vars

\* the awaits of start() end: dequeue(timeout=5) returns or raises when its
\* timeout is over at the latest, process_job comes to its end, and
\* sleep(1) lasts a second
DequeueEnds == DequeueReturnsNone \/ DequeueReturnsJob \/ DequeueRaises
ProcessJobEnds == ProcessJobReturns \/ ProcessJobRaises

SpecLoopFair ==
    /\ Init /\ [][LNext]_vars
    /\ WF_vars(DequeueEnds)
    /\ WF_vars(ProcessJobEnds)
    /\ WF_vars(SleepEnds)

\* C26: an exception other than a cancellation raised by dequeue or by
\* process_job does not end the worker loop: the loop pauses and, running
\* still being true, calls dequeue again; start() returns only once running
\* is false or its task was cancelled.
C26_LoopSurvivesErrors ==
    /\ [](lpc = "returned" => (~lrunning \/ lcancelAt \in {"dequeue", "process"}))
    /\ [](lpc = "cancelled" => lcancelAt = "sleep")
    /\ [][/\ (Len(liter') > Len(liter)
                /\ liter'[Len(liter')] \in {"dequeue_raised", "process_raised"}) =>
                  lpc' = "sleep"
          /\ (lpc = "sleep" /\ lpc' # "sleep" /\ lcancelAt' = "none") =>
                  IF lrunning THEN lpc' = "dequeue" ELSE lpc' = "returned"]_vars

\* dequeue raised, then process_job raised, and the job after them was
\* dequeued and is being processed
C26_Witness ==
    /\ liter = <<"dequeue_raised", "process_raised">>
    /\ lrunning
    /\ lpc = "process"
    /\ lcancelAt = "none"

\* stop() was called at a point of the loop start() runs
StoppedInLoop == lstopAt \in {"dequeue", "process", "sleep"}

\* C27: once stop() has been called at any point of the loop, the worker
\* finishes the iteration it is in, calls dequeue no more, and start()
\* eventually is over: it returns (or, its task being cancelled during the
\* pause, ends with that cancellation).
C27_StopEndsLoop ==
    /\ [][StoppedInLoop => ~(lpc # "dequeue" /\ lpc' = "dequeue")]_vars
    /\ [][(StoppedInLoop /\ lpc = "dequeue" /\ lpc' = "dequeue") => UNCHANGED liter]_vars
    /\ StoppedInLoop ~> (lpc = "returned" \/ (lpc = "cancelled" /\ lcancelAt = "sleep"))

\* stop() was called while process_job ran; the job was finished and
\* start() returned without a cancellation
C27_Witness ==
    /\ lstopAt = "process"
    /\ lpc = "returned"
    /\ lcancelAt = "none"
    /\ liter = <<"none", "job_done">>
    /\ ~lcurrent

\* how many of the items taken so far ended in one of the outcomes
CountOutcomes(outcomes) ==
    Cardinality({i \in 1..Len(boutcomes) : boutcomes[i][2] \in outcomes})

\* C9: whatever the mix of per-item outcomes, the items are taken in list
\* order and, once process_job is over, every item has been taken; the
\* batch.complete webhook is the last one sent and reports completed_count =
\* the number of items that succeeded, failed_count = the number that
\* failed, and the two add up to total_conversations.
C9_EveryItemCounted ==
    /\ \A i \in 1..Len(boutcomes) : boutcomes[i][1] = i
    /\ bpc = "done" =>
          /\ Len(boutcomes) = btotal
          /\ bcallback =>
                /\ bsent # <<>>
                /\ LET last == bsent[Len(bsent)]
                   IN  /\ last.event = "batch.complete"
                       /\ last.completed_count = CountOutcomes({"completed"})
                       /\ last.failed_count = CountOutcomes({"invalid", "raised"})
                       /\ last.completed_count + last.failed_count = btotal
                       /\ last.total_conversations = btotal

\* three items, the second fails validation, the third is still analysed
C9_Witness ==
    /\ bpc = "done"
    /\ bcallback
    /\ boutcomes = << <<1, "completed">>, <<2, "invalid">>, <<3, "completed">> >>
    /\ bsent # <<>>
    /\ bsent[Len(bsent)] = [event |-> "batch.complete", total_conversations |-> 3,
                             completed_count |-> 2, failed_count |-> 1,
                             success_rate |-> 6667]

\* how many webhooks of an event process_job has sent for the batch
CountSent(event) ==
    Cardinality({i \in 1..Len(bsent) : bsent[i].event = event})

\* C21: for every batch with a callback URL whose process_job is over,
\* exactly one of batch.complete and batch.failed was sent; batch.failed was
\* sent only if the processing of the batch raised, and then no
\* batch.complete was sent.
C21_CompleteXorFailed ==
    /\ (bpc \in {"done", "cancelled"} /\ bcallback) =>
          CountSent("batch.complete") + CountSent("batch.failed") = 1
    /\ CountSent("batch.failed") > 0 =>
          (bpc = "cancelled" /\ CountSent("batch.complete") = 0)

\* C29: after every item of a batch, whether it succeeded, failed
\* validation or raised, the decile test is applied to the items done so
\* far, and a batch.progress webhook with the counts is sent whenever the
\* test passes and a callback URL is set.
C29_ProgressAfterEveryItem ==
    [][(bpc = "items" /\ bidx' = bidx + 1) =>
          IF DecileTest(bcompleted' + bfailed', btotal) /\ bcallback
          THEN bsent' = Append(bsent,
                   build_batch_progress_payload(btotal, bcompleted', bfailed'))
          ELSE bsent' = bsent]_vars

(***************************************************************************)
(* process_job with the notifier it calls: a send is the call of            *)
(* _send_webhook and its attempts, and process_job goes on when it has      *)
(* returned.  The worker hands over no max_retries (worker.py 119-126,      *)
(* 135-141, 152-156), so the defaults of the notifier apply.                *)
(***************************************************************************)
\* the default of max_retries in _send_webhook (notifications.py 250)
SendWebhookDefault == 0
\* the default of max_retries in send_batch_complete (notifications.py 79)
SendBatchCompleteDefault == 0

\* variants: the sends with a retry budget
SendBatchProgressWithRetries == SendWebhookBody(MaxRetries)
SendBatchCompleteWithRetries(max_retries) == SendWebhookBody(MaxRetries)

\* send_batch_progress (notifications.py 38-69): _send_webhook(url, payload)
SendBatchProgress == SendWebhookBody(SendWebhookDefault)
\* send_batch_complete (notifications.py 71-103):
\* _send_webhook(url, payload, timeout, max_retries)
SendBatchComplete(max_retries) == SendWebhookBody(max_retries)

Sending == {"send_progress", "send_complete"}
dOthers == <<qvars, jvars, rvars, mvars, lvars, avars>>

\* an item is analysed and no progress webhook is due
ItemSucceedsSilently ==
    /\ bidx < btotal
    /\ ~(bcallback /\ DecileTest(bcompleted + 1 + bfailed, btotal))
    /\ ItemSucceeds

\* an item is analysed and the progress webhook is due (worker.py 106-126):
\* send_batch_progress is awaited
ItemSucceedsAndSends ==
    /\ UNCHANGED dOthers
    /\ bpc = "items"
    /\ bidx < btotal
    /\ bcallback /\ DecileTest(bcompleted + 1 + bfailed, btotal)
    /\ bidx' = bidx + 1
    /\ bcompleted' = bcompleted + 1
    /\ boutcomes' = Append(boutcomes, <<bidx + 1, "completed">>)
    /\ bsent' = Append(bsent, build_batch_progress_payload(btotal, bcompleted + 1, bfailed))
    /\ bpc' = "send_progress"
    /\ SendBatchProgress
    /\ UNCHANGED <<btotal, bcallback, bfailed>>

\* the loop is over and there is no callback URL
BatchCompletesSilently ==
    /\ ~bcallback
    /\ BatchCompletes

\* the loop is over (worker.py 133-141): send_batch_complete is awaited
BatchCompletesAndSends ==
    /\ UNCHANGED dOthers
    /\ bpc = "items"
    /\ bidx >= btotal
    /\ bcallback
    /\ bsent' = Append(bsent, build_batch_complete_payload(btotal, bcompleted, bfailed))
    /\ bpc' = "send_complete"
    /\ SendBatchComplete(SendBatchCompleteDefault)
    /\ UNCHANGED <<btotal, bcallback, bidx, bcompleted, bfailed, boutcomes>>

\* when _send_webhook has returned, process_job goes on: with the next item
\* after a progress webhook, to its end after the completion webhook; the
\* value returned is not looked at
SendReturns ==
    /\ bpc' = IF wpc' # "returned" THEN bpc
              ELSE IF bpc = "send_progress" THEN "items" ELSE "done"
    /\ UNCHANGED <<btotal, bcallback, bidx, bcompleted, bfailed, boutcomes, bsent>>

\* the endpoint answers the webhook of the worker
WorkerPostResponds(status_code) ==
    /\ UNCHANGED dOthers
    /\ bpc \in Sending
    /\ PostRespondsBody(status_code)
    /\ SendReturns

\* the post of the worker's webhook raises
WorkerPostRaises(exc) ==
    /\ UNCHANGED dOthers
    /\ bpc \in Sending
    /\ PostRaisesBody(exc)
    /\ SendReturns

\* the worker's task is cancelled while a send is awaited: CancelledError
\* passes the handlers of _send_webhook and of process_job
CancelledInSend ==
    /\ UNCHANGED dOthers
    /\ bpc \in Sending
    /\ bpc' = "cancelled"
    /\ wpc' = "idle"
    /\ UNCHANGED <<wmax, wattempt, woutcomes, wret>>
    /\ UNCHANGED <<btotal, bcallback, bidx, bcompleted, bfailed, boutcomes, bsent>>

DNextWorker ==
    \/ \E total \in 0..MaxItems, callback \in BOOLEAN : ProcessJob(total, callback)
    \/ ItemInvalid
    \/ ItemRaises
    \/ ItemSucceedsSilently
    \/ ItemSucceedsAndSends
    \/ BatchCompletesSilently
    \/ BatchCompletesAndSends
    \/ \E status_code \in StatusCodes : WorkerPostResponds(status_code)
    \/ \E exc \in PostExceptions : WorkerPostRaises(exc)
    \/ ProcessJobCancelled
    \/ CancelledInSend

SpecDeliver == Init /\ [][DNextWorker]_vars

\* C39: every webhook of the worker is attempted once, whatever the endpoint
\* answers: the send is called without a retry budget, the first outcome of
\* the post (a 2xx, a 4xx, a 5xx, a timeout, a connection error, another
\* exception) ends it, and process_job goes on as it would after a
\* delivery: the counts and the items done are unchanged, the loop goes on
\* with the next item, and process_job reaches its end with every item
\* counted.
C39_AttemptedOnce ==
    /\ [](bpc \in Sending => /\ wmax = 0
                               /\ wpc = "sending"
                               /\ woutcomes = <<>>)
    /\ [][(bpc \in Sending /\ bpc' # "cancelled") =>
            /\ Len(woutcomes') = 1
            /\ wpc' = "returned"
            /\ bpc' = IF bpc = "send_progress" THEN "items" ELSE "done"
            /\ UNCHANGED <<btotal, bcallback, bidx, bcompleted, bfailed,
                           boutcomes, bsent>>]_vars
    /\ [](bpc = "done" => /\ bidx = btotal
                           /\ bcompleted + bfailed = btotal
                           /\ Len(boutcomes) = btotal)

\* the progress webhook after the second of three items was answered with
\* 503: one attempt, False returned, and the loop is at the third item with
\* both items counted
C39_Witness ==
    /\ bpc = "items" /\ btotal = 3 /\ bidx = 2 /\ bcompleted = 2 /\ bfailed = 0
    /\ Len(bsent) = 2
    /\ wpc = "returned" /\ wret = <<FALSE>>
    /\ woutcomes = <<[kind |-> "response", status_code |-> 503]>>

(***************************************************************************)
(* The analysis endpoints (api/v1/analyze.py): create_analysis with its     *)
(* background task run_analysis, and cancel_analysis, for one analysis.     *)
(* The record's status column is written by the commits; run_analysis       *)
(* writes through the session of the create request, which that request     *)
(* closes when it is over (models/database.py 139-143): the record object   *)
(* is then detached and a later commit of run_analysis writes nothing.      *)
(* cancel_analysis has a session of its own.                                *)
(***************************************************************************)
AnalysisStatus ==
    [PENDING |-> "pending", PROCESSING |-> "processing", COMPLETED |-> "completed",
     FAILED |-> "failed", CANCELLED |-> "cancelled"]

\* create_analysis (analyze.py 53-137): the record is committed as pending,
\* the task of run_analysis is created, 202 is returned
CreateAnalysis ==
    /\ UNCHANGED aOthers
    /\ arow = "none"
    /\ arow' = AnalysisStatus.PENDING
    /\ arun' = "start"
    /\ aopen' = TRUE
    /\ UNCHANGED <<acpc, acread, acresp, accalls>>

\* the create request is over: its session is closed (database.py 142-143)
SessionCloses ==
    /\ UNCHANGED aOthers
    /\ aopen
    /\ aopen' = FALSE
    /\ UNCHANGED <<arow, arun, acpc, acread, acresp, accalls>>

\* analysis.status = status; await db.commit() in run_analysis
RunCommits(status) == arow' = IF aopen THEN status ELSE arow

\* analyze.py 83-84: the status is set to processing
RunMarksProcessing ==
    /\ UNCHANGED aOthers
    /\ arun = "start"
    /\ RunCommits(AnalysisStatus.PROCESSING)
    /\ arun' = "analyze"
    /\ UNCHANGED <<aopen, acpc, acread, acresp, accalls>>

\* analyze.py 88-101: analyze has returned, the status is set to completed
AnalyzeReturns ==
    /\ UNCHANGED aOthers
    /\ arun = "analyze"
    /\ RunCommits(AnalysisStatus.COMPLETED)
    /\ arun' = "done"
    /\ UNCHANGED <<aopen, acpc, acread, acresp, accalls>>

\* analyze.py 111-116: analyze has raised, the status is set to failed
AnalyzeRaises ==
    /\ UNCHANGED aOthers
    /\ arun = "analyze"
    /\ RunCommits(AnalysisStatus.FAILED)
    /\ arun' = "done"
    /\ UNCHANGED <<aopen, acpc, acread, acresp, accalls>>

\* the job's timeout is over while analyze is awaited (analyze.py 128,
\* jobs.py 106-107): CancelledError ends run_analysis, nothing is written
AnalyzeTimesOut ==
    /\ UNCHANGED aOthers
    /\ arun = "analyze"
    /\ arun' = "done"
    /\ UNCHANGED <<arow, aopen, acpc, acread, acresp, accalls>>

\* cancel_analysis, analyze.py 229-231: the record is read; the id is known
\* from the response of create_analysis
CancelSelect ==
    /\ UNCHANGED aOthers
    /\ acpc \in {"idle", "responded"}
    /\ arow # "none"
    /\ accalls < MaxCancels
    /\ accalls' = accalls + 1
    /\ acread' = arow
    /\ acpc' = "selected"
    /\ UNCHANGED <<arow, arun, aopen, acresp>>

\* analyze.py 237-241: the status read is neither pending nor processing
CancelRejects ==
    /\ UNCHANGED aOthers
    /\ acpc = "selected"
    /\ acread \notin {AnalysisStatus.PENDING, AnalysisStatus.PROCESSING}
    /\ acresp' = 409
    /\ acpc' = "responded"
    /\ UNCHANGED <<arow, arun, aopen, acread, accalls>>

\* analyze.py 248-258: the status is set to cancelled and committed
CancelCommits ==
    /\ UNCHANGED aOthers
    /\ acpc = "selected"
    /\ acread \in {AnalysisStatus.PENDING, AnalysisStatus.PROCESSING}
    /\ arow' = AnalysisStatus.CANCELLED
    /\ acresp' = 200
    /\ acpc' = "responded"
    /\ UNCHANGED <<arun, aopen, acread, accalls>>

ANext ==
    \/ CreateAnalysis
    \/ SessionCloses
    \/ RunMarksProcessing
    \/ AnalyzeReturns
    \/ AnalyzeRaises
    \/ AnalyzeTimesOut
    \/ CancelSelect
    \/ CancelRejects
    \/ CancelCommits

SpecAnalysis == Init /\ [][ANext]_vars

DecileTestExact(done, total_conversations) ==
    (100 * done) % (10 * total_conversations) < 100

\* the float evaluation of the test gives, for every item of a batch of
\* `total` items, the answer of exact arithmetic
EvaluatedExactly(total) ==
    \A done \in 1..total : DecileTest(done, total) = DecileTestExact(done, total)

\* the batch.progress webhooks sent so far, in their order
ProgressSent == SelectSeq(bsent, LAMBDA w : w.event = "batch.progress")

\* C38: for a batch with a callback URL whose items all succeeded, and for
\* which the test progress % 10 < 100 / total is evaluated as in exact
\* arithmetic, the number of batch.progress webhooks sent is min(total, 10),
\* and the last of them was sent after the final item, with progress 100.
C38_ProgressCount ==
    (bpc = "done" /\ bcallback /\ btotal > 0 /\ bcompleted = btotal
        /\ EvaluatedExactly(btotal)) =>
        /\ Len(ProgressSent) = IF btotal < 10 THEN btotal ELSE 10
        /\ ProgressSent[Len(ProgressSent)] =
              build_batch_progress_payload(btotal, btotal, 0)
        /\ ProgressSent[Len(ProgressSent)].progress_percent = 10000
        /\ bsent[Len(bsent) - 1] = ProgressSent[Len(ProgressSent)]

\* a batch of 13 items with a callback URL is over, every item succeeded,
\* and 10 batch.progress webhooks were sent
C38_Witness ==
    /\ bpc = "done" /\ bcallback /\ btotal = 13 /\ bcompleted = 13
    /\ EvaluatedExactly(13)
    /\ Len(ProgressSent) = 10
    /\ bsent[Len(bsent)].event = "batch.complete"

Next == QNext \/ JNext \/ RNext \/ WNext \/ BNext
Spec == Init /\ [][Next]_vars
====
